---- MODULE Spec2Model ----
(***************************************************************************)
(* Model of the two-pass scene detection pipeline of                       *)
(* app/processor_workflow.py (process_video and its helpers).              *)
(*                                                                         *)
(* Units.  Timestamps and the video duration are Python floats; they are   *)
(* modelled as integers counting tenths of a second ("ticks"), so that     *)
(* the 0.1 s neighbour tolerance is one tick.  The members of              *)
(* positive_frames / scanned_frames and the scene bounds are Python ints   *)
(* (whole seconds) and stay integers counting seconds.  Scores are         *)
(* hundredths (0.22 is 22).                                                *)
(***************************************************************************)
EXTENDS Integers, Sequences, FiniteSets, TLC

VARIABLES
    pc,                 \* position inside process_video
    duration,           \* processor.duration, in ticks
    missing,            \* seconds whose frame cannot be read (cap.read fails)
    oracle,             \* second -> <<pos_score, neg_score>>, the classifier's answer
    threshold,          \* THRESHOLD in force for the current run
    coarse_candidates,  \* list of candidate timestamps (ticks)
    idx,                \* 1-based position of the Pass 2 loop in coarse_candidates
    positive_frames,    \* set of whole seconds
    scanned_frames,     \* set of whole seconds
    final_scenes,       \* list of <<start, end>> in whole seconds
    stats,              \* result of _calculate_stats, or NoStats
    rendered,           \* scene list handed to the renderer, or NotRendered
    result,             \* what process_video returned
    fetch_log,          \* timestamps fetched during Pass 2, in order
    classify_log,       \* whole seconds sent to the oracle during Pass 2, in order
    step,               \* what the last Pass 2 iteration did
    history,            \* finished runs on this video, oldest first
    earlier_scenes,     \* earlier outputs of the Grouper, when it is re-run on its output
    coarse_log,         \* timestamps visited and seconds sent to the oracle by Pass 1
    runs,               \* the Grouper's runs before the length filter, or NotGrouped
    config_buffer,      \* value of the module global BUFFER, in ticks
    task,               \* the API task record of this run, NoTask for a direct call
    job,                \* the weekly job of the scheduler: position, values, calls made
    parked,             \* a second run of process_video while this one is executing
    copies,             \* what the other two copies of the pipeline computed on this video
    tasks,              \* the API task store: task_id -> TaskInfo
    worker,             \* per task_id, where _process_video_task stands and its locals
    tasks_lock,         \* who holds tasks_lock
    request,            \* the endpoint handler the event loop is executing
    response            \* the last answer an endpoint gave

vars == <<pc, duration, missing, oracle, threshold, coarse_candidates, idx,
          positive_frames, scanned_frames, final_scenes, stats, rendered,
          result, fetch_log, classify_log, step, history, earlier_scenes,
          coarse_log, runs, config_buffer, task, job, parked, copies,
          tasks, worker, tasks_lock, request, response>>

\* what process_video shares with no other part of the program
Others == <<copies, tasks, worker, tasks_lock, request, response>>

\* what lies outside one run of the pipeline
Outside == <<job, parked, Others>>

----------------------------------------------------------------------------
(* Bounds of the model *)

\* longest video, in ticks (10.5 s: three coarse samples and a partial last second)
MaxDur == 105
\* most seconds of one video whose frame is unreadable
MaxMissing == 1
\* calls of process_video on the same video
MaxRuns == 2
\* the Grouper taken alone is fed subsets of 0..MaxSecond
MaxSecond == 12
\* how many times the Grouper is re-run on its own flattened output
MaxRegroup == 2
\* how far the raised threshold lies above THRESHOLD, in hundredths
ThresholdRaise == 3
\* _calculate_stats taken alone is fed lists of at most MaxScenes pairs of
\* seconds from 0..MaxSceneSecond
MaxScenes == 2
\* jobs the scheduler runs one after the other
MaxJobs == 2
MaxSceneSecond == 3
\* videos submitted to POST /analyze
MaxTasks == 2

----------------------------------------------------------------------------
(* Program constants *)

\* one tick is the neighbour tolerance of 0.1 s
NEIGHBOR_TOLERANCE == 1
Second == 10 * NEIGHBOR_TOLERANCE
STEP_COARSE == 50
\* variant: a fine step of half a second
STEP_FINE_Half == STEP_COARSE \div 10
STEP_FINE == 10
\* variant: a buffer that is not the coarse step
BUFFER_Mismatch == 2 * STEP_COARSE
BUFFER_DEFAULT == 50
\* the global as the passes read it
BUFFER == config_buffer
THRESHOLD == 22
BATCH_SIZE == 8
\* variant: a scene must span three seconds
MIN_SCENE_DURATION_Long == 2 + 1
MIN_SCENE_DURATION == 2
\* variant: a gap of up to four seconds still continues a run
MIN_GAP_THRESHOLD_Wide == 2 * MIN_SCENE_DURATION
MIN_GAP_THRESHOLD == 2

NoFrame == -1
NoStats == [num_scenes |-> -1]
NotRendered == <<"not rendered">>
\* what a call of process_video yields: the returned pair, or the exception
\* that left it (output_file "raised", error its text)
NoResult == [output_file |-> "unset", stats |-> NoStats, error |-> "none"]
NoneNone == [output_file |-> "None", stats |-> NoStats, error |-> "none"]
Raised(e) == [output_file |-> "raised", stats |-> NoStats, error |-> e]
NotGrouped == <<"not grouped">>
NoCoarseLog == [visited |-> <<>>, classified |-> <<>>]
NoTask == [status |-> "none"]
NoJob == [pc |-> "none"]
NoParked == [pc |-> "none"]
NotRun == [returned |-> "not run"]
NoCopies == [scheduler |-> NotRun, main |-> NotRun]
\* the task ids uuid4 hands out, in the order of their creation
TaskIds == 1..MaxTasks
NoWorker == [pc |-> "none", output_file |-> "None", stats |-> NoStats, e |-> "None"]
Free == <<"free">>
NoRequest == [kind |-> "none"]
NoResponse == [code |-> 0]

----------------------------------------------------------------------------
(* Python helpers *)

\* int(x) of a float x given in ticks: truncation towards zero
IntOf(t) == IF t >= 0 THEN t \div Second ELSE -((-t) \div Second)

Abs(x) == IF x < 0 THEN -x ELSE x
Min(a, b) == IF a < b THEN a ELSE b
Max(a, b) == IF a > b THEN a ELSE b

SetMin(S) == CHOOSE x \in S : \A y \in S : x <= y

\* sorted(list(S)) of a set of integers
RECURSIVE Sorted(_)
Sorted(S) == IF S = {} THEN <<>> ELSE <<SetMin(S)>> \o Sorted(S \ {SetMin(S)})

\* range(a, b)
Range(a, b) == a..(b - 1)

\* the whole seconds that begin before the duration d (ticks)
SecondsOf(d) == {s \in 0..(d \div Second) : s * Second < d}

----------------------------------------------------------------------------
(* External collaborators *)

\* VideoProcessor.get_frame_at_time: the frame at the timestamp, NoFrame when
\* cap.read fails (outside the video or unreadable).  A frame is identified
\* by the second it shows.
GetFrameAtTime(timestamp) ==
    IF timestamp >= 0 /\ timestamp < duration /\ IntOf(timestamp) \notin missing
    THEN IntOf(timestamp)
    ELSE NoFrame

\* SceneAnalyzer.analyze_batch: one score pair per frame, in input order
AnalyzeBatch(frames) == [j \in 1..Len(frames) |-> oracle[frames[j]]]

\* SceneAnalyzer.analyze_frame
AnalyzeFrame(frame) == AnalyzeBatch(<<frame>>)[1]

\* variant: a score equal to the threshold, or a tie, also passes
IsPositive_NonStrict(score) == score[1] >= threshold /\ score[1] >= score[2]
\* the positivity test of lines 93 and 206
IsPositive(score) == score[1] > threshold /\ score[1] > score[2]

----------------------------------------------------------------------------
(* Pass 1: _coarse_scan *)

\* variant: the loop also runs for current_time equal to the duration
RECURSIVE CoarseLoop_Inclusive(_, _)
CoarseLoop_Inclusive(current_time, acc) ==
    IF current_time <= duration
    THEN LET frame == GetFrameAtTime(current_time)
             found == frame # NoFrame /\ IsPositive(AnalyzeFrame(frame))
         IN  CoarseLoop_Inclusive(current_time + STEP_COARSE,
                [cands |-> IF found THEN Append(acc.cands, current_time) ELSE acc.cands,
                 visited |-> Append(acc.visited, current_time),
                 classified |-> IF frame # NoFrame
                                THEN Append(acc.classified, frame)
                                ELSE acc.classified])
    ELSE acc

\* acc.cands is the list the function returns; acc.visited and acc.classified
\* record the calls of get_frame_at_time and of analyze_frame, in order
RECURSIVE CoarseLoop(_, _)
CoarseLoop(current_time, acc) ==
    IF current_time < duration
    THEN LET frame == GetFrameAtTime(current_time)
             found == frame # NoFrame /\ IsPositive(AnalyzeFrame(frame))
         IN  CoarseLoop(current_time + STEP_COARSE,
                [cands |-> IF found THEN Append(acc.cands, current_time) ELSE acc.cands,
                 visited |-> Append(acc.visited, current_time),
                 classified |-> IF frame # NoFrame
                                THEN Append(acc.classified, frame)
                                ELSE acc.classified])
    ELSE acc

CoarseScan == CoarseLoop(0, [cands |-> <<>>, visited |-> <<>>, classified |-> <<>>])

----------------------------------------------------------------------------
(* Pass 2: _scan_side *)

\* variant: the auto-fill advances by the coarse step
RECURSIVE AutoFill_CoarseStep(_, _, _)
AutoFill_CoarseStep(t, end_search, pos) ==
    IF t < end_search
    THEN AutoFill_CoarseStep(t + STEP_COARSE, end_search, pos \cup {IntOf(t)})
    ELSE pos

\* the auto-fill loop of lines 175-178
RECURSIVE AutoFill(_, _, _)
AutoFill(t, end_search, pos) ==
    IF t < end_search
    THEN AutoFill(t + STEP_FINE, end_search, pos \cup {IntOf(t)})
    ELSE pos

\* variant: the membership test of line 185 inverted
RECURSIVE TimestampsToScan_Inverted(_, _, _)
TimestampsToScan_Inverted(t, end_search, scanned) ==
    IF t < end_search
    THEN (IF IntOf(t) \in scanned THEN <<t>> ELSE <<>>)
         \o TimestampsToScan_Inverted(t + STEP_FINE, end_search, scanned)
    ELSE <<>>

\* the collection loop of lines 181-187
RECURSIVE TimestampsToScan(_, _, _)
TimestampsToScan(t, end_search, scanned) ==
    IF t < end_search
    THEN (IF IntOf(t) \notin scanned THEN <<t>> ELSE <<>>)
         \o TimestampsToScan(t + STEP_FINE, end_search, scanned)
    ELSE <<>>

\* timestamps_to_scan[i : i + BATCH_SIZE], i counted from 0
Slice(ts, i) == SubSeq(ts, i + 1, Min(Len(ts), i + BATCH_SIZE))

\* variant: results[j] applied to batch_times[j] instead of valid_times[j]
ScanBatch_ByBatchTimes(batch_times, acc) ==
    LET valid_times == SelectSeq(batch_times, LAMBDA bt : GetFrameAtTime(bt) # NoFrame)
        frames == [j \in 1..Len(valid_times) |-> GetFrameAtTime(valid_times[j])]
        results == IF Len(frames) > 0 THEN AnalyzeBatch(frames) ELSE <<>>
        js == 1..Len(results)
    IN  [positive |-> acc.positive
                        \cup {IntOf(batch_times[j]) : j \in {k \in js : IsPositive(results[k])}},
         scanned |-> acc.scanned \cup {IntOf(batch_times[j]) : j \in js},
         fetched |-> acc.fetched \o batch_times,
         classified |-> acc.classified \o frames]

\* variant: the batch is cut at the first frame that cannot be read
ScanBatch_StopAtMissing(batch_times, acc) ==
    LET bad == {j \in 1..Len(batch_times) : GetFrameAtTime(batch_times[j]) = NoFrame}
        cut == IF bad = {} THEN Len(batch_times) ELSE SetMin(bad) - 1
        valid_times == SubSeq(batch_times, 1, cut)
        frames == [j \in 1..Len(valid_times) |-> GetFrameAtTime(valid_times[j])]
        results == IF Len(frames) > 0 THEN AnalyzeBatch(frames) ELSE <<>>
        js == 1..Len(results)
    IN  [positive |-> acc.positive
                        \cup {IntOf(valid_times[j]) : j \in {k \in js : IsPositive(results[k])}},
         scanned |-> acc.scanned \cup {IntOf(valid_times[j]) : j \in js},
         fetched |-> acc.fetched \o SubSeq(batch_times, 1, Min(cut + 1, Len(batch_times))),
         classified |-> acc.classified \o frames]

\* one batch: lines 191-207.  acc is [positive, scanned, fetched, classified].
ScanBatch(batch_times, acc) ==
    LET valid_times == SelectSeq(batch_times, LAMBDA bt : GetFrameAtTime(bt) # NoFrame)
        frames == [j \in 1..Len(valid_times) |-> GetFrameAtTime(valid_times[j])]
        results == IF Len(frames) > 0 THEN AnalyzeBatch(frames) ELSE <<>>
        js == 1..Len(results)
    IN  [positive |-> acc.positive
                        \cup {IntOf(valid_times[j]) : j \in {k \in js : IsPositive(results[k])}},
         scanned |-> acc.scanned \cup {IntOf(valid_times[j]) : j \in js},
         fetched |-> acc.fetched \o batch_times,
         classified |-> acc.classified \o frames]

\* the batch loop of line 190
RECURSIVE ScanBatches(_, _, _)
ScanBatches(ts, i, acc) ==
    IF i < Len(ts)
    THEN ScanBatches(ts, i + BATCH_SIZE, ScanBatch(Slice(ts, i), acc))
    ELSE acc

\* variant: a side whose neighbour exists is left to the neighbour and skipped
ScanSide_SkipNeighbor(start_search, end_search, has_neighbor, acc) ==
    IF has_neighbor
    THEN acc
    ELSE ScanBatches(TimestampsToScan(start_search, end_search, acc.scanned), 0, acc)

ScanSide(start_search, end_search, has_neighbor, acc) ==
    IF has_neighbor
    THEN [acc EXCEPT !.positive = AutoFill(start_search, end_search, acc.positive)]
    ELSE ScanBatches(TimestampsToScan(start_search, end_search, acc.scanned), 0, acc)

----------------------------------------------------------------------------
(* Pass 2: _fine_scan *)

\* variant: the distance to the predecessor compared with the fine step
HasLeftNeighbor_FineStep(cands, i) ==
    /\ i > 1
    /\ Abs(cands[i] - cands[i - 1] - STEP_FINE) < NEIGHBOR_TOLERANCE

HasLeftNeighbor(cands, i) ==
    /\ i > 1
    /\ Abs(cands[i] - cands[i - 1] - STEP_COARSE) < NEIGHBOR_TOLERANCE

HasRightNeighbor(cands, i) ==
    /\ i < Len(cands)
    /\ Abs(cands[i + 1] - cands[i] - STEP_COARSE) < NEIGHBOR_TOLERANCE

\* the window filled at lines 131-132
SurroundedFill(current_time) ==
    Range(IntOf(current_time - BUFFER), IntOf(current_time + BUFFER))

\* variant: the left window reaches back twice as far
LeftStart_Far(current_time) == Max(0, current_time - 2 * BUFFER)
LeftStart(current_time) == Max(0, current_time - BUFFER)
\* variant: the right window not cut at the end of the video
RightEnd_Unclamped(current_time) == current_time + BUFFER
RightEnd(current_time) == Min(duration, current_time + BUFFER)

\* variant: only the left side is handled
ScanBothSides_LeftOnly(cands, i, acc) ==
    ScanSide(LeftStart(cands[i]), cands[i], HasLeftNeighbor(cands, i), acc)

\* lines 136-155: the left side, then the right side
ScanBothSides(cands, i, acc) ==
    LET current_time == cands[i]
        left == ScanSide(LeftStart(current_time), current_time,
                         HasLeftNeighbor(cands, i), acc)
    IN  ScanSide(current_time, RightEnd(current_time),
                 HasRightNeighbor(cands, i), left)

\* the for loop of lines 119-155 run from candidate i to the end without
\* interruption; acc is [positive, scanned, fetched, classified]
RECURSIVE FineLoop(_, _, _)
FineLoop(cands, i, acc) ==
    IF i > Len(cands)
    THEN acc
    ELSE FineLoop(cands, i + 1,
            IF HasLeftNeighbor(cands, i) /\ HasRightNeighbor(cands, i)
            THEN [acc EXCEPT !.positive = @ \cup SurroundedFill(cands[i])]
            ELSE ScanBothSides(cands, i, acc))

\* variant: the scanned set kept at module level and seen by a concurrent run
FreshScanned_Global == IF parked.pc = "none" THEN {} ELSE parked.scanned_frames

\* variant: the scanned set kept at module level and reused by the next run
FreshScanned_Shared == IF Len(history) = 0 THEN {} ELSE history[Len(history)].scanned

\* the sets _fine_scan starts from (lines 114-115)
FreshPositive == {}
FreshScanned == {}

----------------------------------------------------------------------------
(* _group_scenes *)

\* variant: the end of a scene made exclusive
Scene_EndExclusive(current_start, current_end) == <<current_start, current_end + 1>>

\* the tuple appended at lines 225 and 229
Scene(current_start, current_end) == <<current_start, current_end>>

\* variant: line 226 forgotten, the new run keeps the old start
NewRunStart_Kept(current_start, f) == current_start

\* the start of the run opened at line 226
NewRunStart(current_start, f) == f

RECURSIVE GroupLoop(_, _, _, _, _)
GroupLoop(sorted_frames, k, current_start, current_end, scenes) ==
    IF k > Len(sorted_frames)
    THEN Append(scenes, Scene(current_start, current_end))
    ELSE LET f == sorted_frames[k]
         IN  IF f <= current_end + MIN_GAP_THRESHOLD
             THEN GroupLoop(sorted_frames, k + 1, current_start, f, scenes)
             ELSE GroupLoop(sorted_frames, k + 1, NewRunStart(current_start, f), f,
                            Append(scenes, Scene(current_start, current_end)))

\* the runs before the duration filter (lines 212-229)
Runs(frames) ==
    LET sorted_frames == Sorted(frames)
    IN  IF Len(sorted_frames) = 0
        THEN <<>>
        ELSE GroupLoop(sorted_frames, 2, sorted_frames[1], sorted_frames[1], <<>>)

\* variant: the filter keeps every run
LongEnough_Any(s) == (s[2] - s[1]) >= 0

\* the filter of line 232
LongEnough(s) == (s[2] - s[1]) >= MIN_SCENE_DURATION

GroupScenes(frames) == SelectSeq(Runs(frames), LongEnough)

----------------------------------------------------------------------------
(* _calculate_stats *)

\* variant: a scene counted with both of its end seconds
SceneLength_Inclusive(s) == s[2] - s[1] + 1

\* end - start of line 239
SceneLength(s) == s[2] - s[1]

RECURSIVE SumLengths(_, _)
SumLengths(scenes, k) ==
    IF k > Len(scenes) THEN 0 ELSE SceneLength(scenes[k]) + SumLengths(scenes, k + 1)

\* variant: the test total_duration > 0 of line 240 left out
CalculateStats_Unguarded(scenes, total_duration) ==
    LET total_scene_duration == SumLengths(scenes, 1)
    IN  [num_scenes |-> Len(scenes),
         total_duration |-> total_scene_duration,
         pct_num |-> total_scene_duration * Second * 100,
         pct_den |-> total_duration]

\* percentage is the exact fraction pct_num / pct_den:
\* (total_scene_duration / total_duration) * 100 with total_duration in ticks
CalculateStats(scenes, total_duration) ==
    LET total_scene_duration == SumLengths(scenes, 1)
    IN  [num_scenes |-> Len(scenes),
         total_duration |-> total_scene_duration,
         pct_num |-> IF total_duration > 0 THEN total_scene_duration * Second * 100 ELSE 0,
         pct_den |-> IF total_duration > 0 THEN total_duration ELSE 1]

----------------------------------------------------------------------------
(* The inputs of a run *)

\* a frame the oracle scores well above the threshold, one it scores exactly
\* at the threshold, and one that passes THRESHOLD but not a raised threshold
StrongScore == <<THRESHOLD + 8, THRESHOLD - 12>>
AtThresholdScore == <<THRESHOLD, THRESHOLD - 12>>
MarginalScore == <<THRESHOLD + 2, THRESHOLD - 12>>

Durations == {d \in 0..MaxDur : d % 5 = 0 \/ d = MaxDur}
Thresholds == {THRESHOLD, THRESHOLD + ThresholdRaise}

MissingSets(d) == {m \in SUBSET SecondsOf(d) : Cardinality(m) <= MaxMissing}

Locals ==
    /\ pc = "start"
    /\ coarse_candidates = <<>>
    /\ idx = 1
    /\ positive_frames = {}
    /\ scanned_frames = {}
    /\ final_scenes = <<>>
    /\ stats = NoStats
    /\ rendered = NotRendered
    /\ result = NoResult
    /\ fetch_log = <<>>
    /\ classify_log = <<>>
    /\ step = [kind |-> "none", time |-> 0]
    /\ coarse_log = NoCoarseLog
    /\ runs = NotGrouped

\* a direct call of process_video under the shipped configuration
OthersIdle ==
    /\ copies = NoCopies
    /\ tasks = [task_id \in {} |-> NoTask]
    /\ worker = [id \in TaskIds |-> NoWorker]
    /\ tasks_lock = Free
    /\ request = NoRequest
    /\ response = NoResponse

OutsideIdle ==
    /\ job = NoJob
    /\ parked = NoParked
    /\ OthersIdle

DirectCall ==
    /\ config_buffer = BUFFER_DEFAULT
    /\ task = NoTask
    /\ OutsideIdle

Init ==
    /\ duration \in Durations
    /\ missing \in MissingSets(duration)
    /\ oracle \in [SecondsOf(duration) -> {StrongScore, AtThresholdScore}]
    /\ threshold = THRESHOLD
    /\ history = <<>>
    /\ earlier_scenes = <<>>
    /\ DirectCall
    /\ Locals

----------------------------------------------------------------------------
(* process_video, one action per stage and per Pass 2 iteration *)

Input == <<duration, missing, oracle, threshold, history, earlier_scenes,
           config_buffer, task, Outside>>

\* variant: the early return of lines 49-52 left out
NoCandidates_Never(cands) == FALSE
\* line 49
NoCandidates(cands) == Len(cands) = 0

\* lines 46-52 and the prologue of _fine_scan (lines 114-117)
Pass1 ==
    /\ pc = "start"
    /\ LET scan == CoarseScan
           cands == scan.cands
       IN  /\ coarse_log' = [visited |-> scan.visited, classified |-> scan.classified]
           /\ IF NoCandidates(cands)
              THEN /\ pc' = "done"
                   /\ result' = NoneNone
                   /\ UNCHANGED <<coarse_candidates, idx, positive_frames, scanned_frames>>
              ELSE /\ pc' = IF Len(cands) = 0 THEN "group" ELSE "fine"
                   /\ coarse_candidates' = SortSeq(cands, LAMBDA a, b : a < b)
                   /\ idx' = 1
                   /\ positive_frames' = FreshPositive
                   /\ scanned_frames' = FreshScanned
                   /\ UNCHANGED result
    /\ UNCHANGED <<Input, final_scenes, stats, rendered, fetch_log, classify_log, step,
                   runs>>

AfterIteration == IF idx + 1 > Len(coarse_candidates) THEN "group" ELSE "fine"

\* lines 130-133: a candidate surrounded by candidates
FineAutoFill ==
    /\ pc = "fine"
    /\ idx <= Len(coarse_candidates)
    /\ HasLeftNeighbor(coarse_candidates, idx)
    /\ HasRightNeighbor(coarse_candidates, idx)
    /\ positive_frames' = positive_frames \cup SurroundedFill(coarse_candidates[idx])
    /\ step' = [kind |-> "autofill", time |-> coarse_candidates[idx]]
    /\ idx' = idx + 1
    /\ pc' = AfterIteration
    /\ UNCHANGED <<Input, coarse_candidates, scanned_frames, final_scenes, stats,
                   rendered, result, fetch_log, classify_log, coarse_log, runs>>

\* lines 135-155: any other candidate
FineScanSides ==
    /\ pc = "fine"
    /\ idx <= Len(coarse_candidates)
    /\ ~(HasLeftNeighbor(coarse_candidates, idx) /\ HasRightNeighbor(coarse_candidates, idx))
    /\ LET acc == ScanBothSides(coarse_candidates, idx,
                                [positive |-> positive_frames, scanned |-> scanned_frames,
                                 fetched |-> fetch_log, classified |-> classify_log])
       IN  /\ positive_frames' = acc.positive
           /\ scanned_frames' = acc.scanned
           /\ fetch_log' = acc.fetched
           /\ classify_log' = acc.classified
    /\ step' = [kind |-> "scan", time |-> coarse_candidates[idx]]
    /\ idx' = idx + 1
    /\ pc' = AfterIteration
    /\ UNCHANGED <<Input, coarse_candidates, final_scenes, stats, rendered, result,
                   coarse_log, runs>>

\* lines 57-63
Group ==
    /\ pc = "group"
    /\ runs' = Runs(positive_frames)
    /\ final_scenes' = GroupScenes(positive_frames)
    /\ IF Len(final_scenes') = 0
       THEN pc' = "done" /\ result' = NoneNone
       ELSE pc' = "stats" /\ UNCHANGED result
    /\ UNCHANGED <<Input, coarse_candidates, idx, positive_frames, scanned_frames,
                   stats, rendered, fetch_log, classify_log, step, coarse_log>>

\* lines 65-74; the renderer succeeds or raises (_generate_output_video)
Finish ==
    /\ pc = "stats"
    /\ stats' = CalculateStats(final_scenes, duration)
    /\ rendered' = final_scenes
    /\ \E ok \in BOOLEAN :
          result' = [output_file |-> IF ok THEN "file" ELSE "None", stats |-> stats',
                     error |-> "none"]
    /\ pc' = "done"
    /\ UNCHANGED <<Input, coarse_candidates, idx, positive_frames, scanned_frames,
                   final_scenes, fetch_log, classify_log, step, coarse_log, runs>>

Next == Pass1 \/ FineAutoFill \/ FineScanSides \/ Group \/ Finish

Spec == Init /\ [][Next]_vars

----------------------------------------------------------------------------
(* process_video called again on the same video, possibly under another     *)
(* THRESHOLD: the locals of the finished call are gone, the video, the      *)
(* frame source and the oracle are the same.                                *)

RunRecord ==
    [threshold |-> threshold, candidates |-> coarse_candidates,
     positive |-> positive_frames, scanned |-> scanned_frames,
     scenes |-> final_scenes, stats |-> stats]

Restart ==
    /\ pc = "done"
    /\ Len(history) + 1 < MaxRuns
    /\ history' = Append(history, RunRecord)
    /\ threshold' \in Thresholds
    /\ pc' = "start"
    /\ coarse_candidates' = <<>>
    /\ idx' = 1
    /\ positive_frames' = {}
    /\ scanned_frames' = {}
    /\ final_scenes' = <<>>
    /\ stats' = NoStats
    /\ rendered' = NotRendered
    /\ result' = NoResult
    /\ fetch_log' = <<>>
    /\ classify_log' = <<>>
    /\ step' = [kind |-> "none", time |-> 0]
    /\ coarse_log' = NoCoarseLog
    /\ runs' = NotGrouped
    /\ UNCHANGED <<duration, missing, oracle, earlier_scenes, config_buffer, task,
                   Outside>>

\* the seconds Pass 1 samples
CoarseSeconds(d) == {s \in SecondsOf(d) : (s * Second) % STEP_COARSE = 0}

\* the last second of the video, unreadable in a truncated recording
LastSecond(d) == {s \in SecondsOf(d) : (s + 1) * Second >= d}

\* a score that passes THRESHOLD but not the raised threshold is drawn for the
\* seconds Pass 1 samples, where it decides the candidate list
RunOracles(d) ==
    {o \in [SecondsOf(d) -> {StrongScore, MarginalScore, AtThresholdScore}] :
        \A s \in SecondsOf(d) \ CoarseSeconds(d) : o[s] # MarginalScore}

InitRuns ==
    /\ duration \in Durations
    /\ missing \in {{}, LastSecond(duration)}
    /\ oracle \in RunOracles(duration)
    /\ threshold = THRESHOLD
    /\ history = <<>>
    /\ earlier_scenes = <<>>
    /\ DirectCall
    /\ Locals

NextRuns == Next \/ Restart

SpecRuns == InitRuns /\ [][NextRuns]_vars

----------------------------------------------------------------------------
(* The Grouper, the statistics and the renderer on an arbitrary set of      *)
(* positive seconds, and the Grouper re-run on its own flattened output.    *)

\* every integer second within each emitted scene
Flatten(scenes) == UNION {s[1]..s[2] : s \in {scenes[k] : k \in 1..Len(scenes)}}

Reflatten ==
    /\ pc \in {"stats", "done"}
    /\ Len(earlier_scenes) < MaxRegroup
    /\ earlier_scenes' = Append(earlier_scenes, final_scenes)
    /\ positive_frames' = Flatten(final_scenes)
    /\ pc' = "group"
    /\ final_scenes' = <<>>
    /\ stats' = NoStats
    /\ rendered' = NotRendered
    /\ result' = NoResult
    /\ runs' = NotGrouped
    /\ UNCHANGED <<duration, missing, oracle, threshold, history, coarse_candidates,
                   idx, scanned_frames, fetch_log, classify_log, step, coarse_log,
                   config_buffer, task, Outside>>

InitGroup ==
    /\ positive_frames \in SUBSET (0..MaxSecond)
    /\ duration = (MaxSecond + 1) * Second
    /\ missing = {}
    /\ oracle = [s \in SecondsOf(duration) |-> StrongScore]
    /\ threshold = THRESHOLD
    /\ history = <<>>
    /\ earlier_scenes = <<>>
    /\ pc = "group"
    /\ coarse_candidates = <<>>
    /\ idx = 1
    /\ scanned_frames = {}
    /\ final_scenes = <<>>
    /\ stats = NoStats
    /\ rendered = NotRendered
    /\ result = NoResult
    /\ fetch_log = <<>>
    /\ classify_log = <<>>
    /\ step = [kind |-> "none", time |-> 0]
    /\ coarse_log = NoCoarseLog
    /\ runs = NotGrouped
    /\ DirectCall

NextGroup == Group \/ Finish \/ Reflatten

SpecGroup == InitGroup /\ [][NextGroup]_vars

----------------------------------------------------------------------------
(* Pass 1 on the edge cases of the positivity test and of the duration:     *)
(* the seconds Pass 1 samples draw their score from five classes, and the   *)
(* duration may be zero or negative (frame_count / fps of a broken file).   *)

\* pos equal to neg, neg above pos, and pos below the threshold
TieScore == <<THRESHOLD + 8, THRESHOLD + 8>>
NegHigherScore == <<THRESHOLD + 8, THRESHOLD + 9>>
LowScore == <<THRESHOLD - 5, THRESHOLD - 12>>

CoarseScores == {StrongScore, AtThresholdScore, TieScore, NegHigherScore, LowScore}

CoarseOracles(d) ==
    {[s \in SecondsOf(d) |-> IF s \in CoarseSeconds(d) THEN c[s] ELSE StrongScore] :
        c \in [CoarseSeconds(d) -> CoarseScores]}

NonPositiveDurations == {0 - STEP_FINE, 0 - NEIGHBOR_TOLERANCE, 0}

InitCoarse ==
    /\ duration \in Durations \cup NonPositiveDurations
    /\ missing \in MissingSets(duration)
    /\ oracle \in CoarseOracles(duration)
    /\ threshold = THRESHOLD
    /\ history = <<>>
    /\ earlier_scenes = <<>>
    /\ DirectCall
    /\ Locals

SpecCoarse == InitCoarse /\ [][Next]_vars

----------------------------------------------------------------------------
(* The Grouper on the positive seconds of a longer video: every subset of   *)
(* seconds spaced one, two, three and more apart, up to second 30.          *)

ScenarioDSeconds == {10, 11, 12, 14, 16, 17, 19, 30}

InitScenarioD ==
    /\ positive_frames \in SUBSET ScenarioDSeconds
    /\ duration = 31 * Second
    /\ missing = {}
    /\ oracle = [s \in SecondsOf(duration) |-> StrongScore]
    /\ threshold = THRESHOLD
    /\ history = <<>>
    /\ earlier_scenes = <<>>
    /\ pc = "group"
    /\ coarse_candidates = <<>>
    /\ idx = 1
    /\ scanned_frames = {}
    /\ final_scenes = <<>>
    /\ stats = NoStats
    /\ rendered = NotRendered
    /\ result = NoResult
    /\ fetch_log = <<>>
    /\ classify_log = <<>>
    /\ step = [kind |-> "none", time |-> 0]
    /\ coarse_log = NoCoarseLog
    /\ runs = NotGrouped
    /\ DirectCall

SpecScenarioD == InitScenarioD /\ [][NextGroup]_vars

----------------------------------------------------------------------------
(* A video of 30 s whose positive seconds form one stretch a..b; the frame  *)
(* of second 0 may be unreadable.                                           *)

StretchOracles(d) ==
    {[s \in SecondsOf(d) |-> IF a <= s /\ s <= b THEN StrongScore ELSE AtThresholdScore] :
        a, b \in SecondsOf(d)}

InitScenarioA ==
    /\ duration = 6 * STEP_COARSE
    /\ missing \in {{}, {0}}
    /\ oracle \in StretchOracles(duration)
    /\ threshold = THRESHOLD
    /\ history = <<>>
    /\ earlier_scenes = <<>>
    /\ DirectCall
    /\ Locals

SpecScenarioA == InitScenarioA /\ [][Next]_vars

----------------------------------------------------------------------------
(* process_video run as the background task of the API                      *)
(* (_process_video_task), with an oracle that may raise.                    *)

PendingTask ==
    [status |-> "pending", output_file |-> "None", stats |-> NoStats,
     error_message |-> "None"]

NoScenesMessage == "Processing returned no output. No scenes detected."

\* texts of the exceptions analyze_batch may raise
OracleErrors == {"CUDA out of memory", "cannot identify image"}

\* variant: the passes wrapped in the handler of lines 42-44
OnOracleError_Swallowed(e) == NoneNone
\* process_video has no handler around the passes: the exception leaves it
OnOracleError(e) == Raised(e)

\* lines 77-84: the task is marked PROCESSING and process_video is called
TaskStart ==
    /\ pc = "queued"
    /\ task.status = "pending"
    /\ task' = [task EXCEPT !.status = "processing"]
    /\ pc' = "start"
    /\ UNCHANGED <<duration, missing, oracle, threshold, history, earlier_scenes,
                   config_buffer, coarse_candidates, idx, positive_frames,
                   scanned_frames, final_scenes, stats, rendered, result, fetch_log,
                   classify_log, step, coarse_log, runs, Outside>>

\* analyze_frame raises at the k-th call of Pass 1 (line 88)
Pass1Raises ==
    /\ pc = "start"
    /\ LET scan == CoarseScan
       IN  \E k \in 1..Len(scan.classified), e \in OracleErrors :
              /\ coarse_log' =
                    [visited |-> SelectSeq(scan.visited,
                                    LAMBDA t : t <= scan.classified[k] * Second),
                     classified |-> SubSeq(scan.classified, 1, k)]
              /\ step' = [kind |-> "raise", time |-> scan.classified[k] * Second]
              /\ result' = OnOracleError(e)
    /\ pc' = "done"
    /\ UNCHANGED <<Input, coarse_candidates, idx, positive_frames, scanned_frames,
                   final_scenes, stats, rendered, fetch_log, classify_log, runs>>

\* analyze_batch raises in the iteration of Pass 2 (line 202); the sets of
\* _fine_scan are lost with the call
FineRaises ==
    /\ pc = "fine"
    /\ idx <= Len(coarse_candidates)
    /\ ~(HasLeftNeighbor(coarse_candidates, idx) /\ HasRightNeighbor(coarse_candidates, idx))
    /\ LET acc == ScanBothSides(coarse_candidates, idx,
                                [positive |-> positive_frames, scanned |-> scanned_frames,
                                 fetched |-> fetch_log, classified |-> classify_log])
       IN  Len(acc.classified) > Len(classify_log)
    /\ \E e \in OracleErrors : result' = OnOracleError(e)
    /\ step' = [kind |-> "raise", time |-> coarse_candidates[idx]]
    /\ pc' = "done"
    /\ UNCHANGED <<Input, coarse_candidates, idx, positive_frames, scanned_frames,
                   final_scenes, stats, rendered, fetch_log, classify_log, coarse_log,
                   runs>>

\* lines 86-104: the record written for what process_video yielded
TaskOutcome(res) ==
    IF res.output_file = "raised"
    THEN [status |-> "failed", output_file |-> "None", stats |-> NoStats,
          error_message |-> res.error]
    ELSE IF res.output_file # "None"
    THEN [status |-> "completed", output_file |-> res.output_file, stats |-> res.stats,
          error_message |-> "None"]
    ELSE [status |-> "failed", output_file |-> "None", stats |-> NoStats,
          error_message |-> NoScenesMessage]

\* scheduler.process_video_workflow, lines 150-158: what its render step
\* returns for the stats it computed
SchedulerReturn(ok, stats_text) ==
    IF ok
    THEN [output_file |-> "file", stats |-> stats_text, error |-> "none"]
    ELSE NoneNone

TaskEnd ==
    /\ pc = "done"
    /\ task.status = "processing"
    /\ task' = TaskOutcome(result)
    /\ pc' = "returned"
    /\ UNCHANGED <<duration, missing, oracle, threshold, history, earlier_scenes,
                   config_buffer, coarse_candidates, idx, positive_frames,
                   scanned_frames, final_scenes, stats, rendered, result, fetch_log,
                   classify_log, step, coarse_log, runs, Outside>>

InitApi ==
    /\ duration \in Durations
    /\ missing \in {{}, LastSecond(duration)}
    /\ oracle \in [SecondsOf(duration) -> {StrongScore, AtThresholdScore}]
    /\ threshold = THRESHOLD
    /\ history = <<>>
    /\ earlier_scenes = <<>>
    /\ config_buffer = BUFFER_DEFAULT
    /\ task = PendingTask
    /\ OutsideIdle
    /\ coarse_candidates = <<>>
    /\ idx = 1
    /\ positive_frames = {}
    /\ scanned_frames = {}
    /\ final_scenes = <<>>
    /\ stats = NoStats
    /\ rendered = NotRendered
    /\ result = NoResult
    /\ fetch_log = <<>>
    /\ classify_log = <<>>
    /\ step = [kind |-> "none", time |-> 0]
    /\ coarse_log = NoCoarseLog
    /\ runs = NotGrouped
    /\ pc = "queued"

NextApi == TaskStart \/ Next \/ Pass1Raises \/ FineRaises \/ TaskEnd

SpecApi == InitApi /\ [][NextApi]_vars

\* the direct calls of the edge-case inputs of Pass 1, with an oracle that
\* may raise
NextCoarseFail == Next \/ Pass1Raises \/ FineRaises

SpecCoarseFail == InitCoarse /\ [][NextCoarseFail]_vars

----------------------------------------------------------------------------
(* process_video under an overridden BUFFER: the shipped value, a smaller   *)
(* and a larger one.                                                        *)

Buffers == {BUFFER_DEFAULT, BUFFER_DEFAULT - 2 * Second, BUFFER_Mismatch}

InitConfig ==
    /\ duration \in Durations
    /\ missing = {}
    /\ oracle \in [SecondsOf(duration) -> {StrongScore, AtThresholdScore}]
    /\ threshold = THRESHOLD
    /\ history = <<>>
    /\ earlier_scenes = <<>>
    /\ config_buffer \in Buffers
    /\ task = NoTask
    /\ OutsideIdle
    /\ Locals

SpecConfig == InitConfig /\ [][Next]_vars

----------------------------------------------------------------------------
(* _calculate_stats on an arbitrary list of pairs and an arbitrary total    *)
(* duration, zero and negative included.                                    *)

ScenePairs == (0..MaxSceneSecond) \X (0..MaxSceneSecond)
SceneLists == UNION {[1..n -> ScenePairs] : n \in 0..MaxScenes}
StatsDurations ==
    {0 - Second, 0, NEIGHBOR_TOLERANCE, STEP_COARSE \div 2, (MaxSceneSecond + 1) * Second}

InitStats ==
    /\ final_scenes \in SceneLists
    /\ duration \in StatsDurations
    /\ missing = {}
    /\ oracle = [s \in SecondsOf(duration) |-> StrongScore]
    /\ threshold = THRESHOLD
    /\ history = <<>>
    /\ earlier_scenes = <<>>
    /\ pc = "stats"
    /\ coarse_candidates = <<>>
    /\ idx = 1
    /\ positive_frames = {}
    /\ scanned_frames = {}
    /\ stats = NoStats
    /\ rendered = NotRendered
    /\ result = NoResult
    /\ fetch_log = <<>>
    /\ classify_log = <<>>
    /\ step = [kind |-> "none", time |-> 0]
    /\ coarse_log = NoCoarseLog
    /\ runs = NotGrouped
    /\ DirectCall

NextStats == Finish

SpecStats == InitStats /\ [][NextStats]_vars

----------------------------------------------------------------------------
(* scheduler.job: scrape, download, process, confirm, post.  The five       *)
(* collaborators are called through their return values; every call is     *)
(* logged with the arguments it got and the value it returned, each a       *)
(* tuple of strings.                                                        *)

\* Python truthiness of the values the steps return
Truthy(v) == v \notin {"None", "False", ""}

\* find_latest_episode: an episode <<title, url>> or None
ScrapeResults ==
    {<<"None", "None">>, <<"Tatort A", "url-a">>, <<"Tatort B", "url-b">>,
     <<"Tatort C", "url-c">>}
\* download_video: the file name or None
DownloadResults == {"None", "downloads/a.mp4", "downloads/b.mp4"}
\* process_video_workflow: (output_file, stats_text) or (None, None)
ProcessResults ==
    {<<"None", "None">>, <<"output/x.mp4", "stats x">>, <<"output/y.mp4", "stats y">>}

IdleJob(n) ==
    [pc |-> "scrape", n |-> n, episode |-> <<"None", "None">>, video_path |-> "None",
     output_video |-> "None", stats |-> "None", confirmed |-> "None", calls |-> <<>>]

Call(name, args, ret) == [step |-> name, args |-> args, ret |-> ret]

JobUnchanged ==
    UNCHANGED <<pc, duration, missing, oracle, threshold, coarse_candidates, idx,
                positive_frames, scanned_frames, final_scenes, stats, rendered,
                result, fetch_log, classify_log, step, history, earlier_scenes,
                coarse_log, runs, config_buffer, task, parked, Others>>

\* lines 163-167
JobScrape ==
    /\ job.pc = "scrape"
    /\ \E episode \in ScrapeResults :
          job' = [job EXCEPT !.episode = episode,
                             !.calls = Append(@, Call("scrape", <<>>, episode)),
                             !.pc = IF Truthy(episode[1]) THEN "download" ELSE "end"]
    /\ JobUnchanged

\* lines 171-175
JobDownload ==
    /\ job.pc = "download"
    /\ \E video_path \in DownloadResults :
          job' = [job EXCEPT !.video_path = video_path,
                             !.calls = Append(@, Call("download",
                                                     <<job.episode[2], "downloads">>,
                                                     <<video_path>>)),
                             !.pc = IF Truthy(video_path) THEN "process" ELSE "end"]
    /\ JobUnchanged

\* lines 177-181
JobProcess ==
    /\ job.pc = "process"
    /\ \E r \in ProcessResults :
          job' = [job EXCEPT !.output_video = r[1],
                             !.stats = r[2],
                             !.calls = Append(@, Call("process", <<job.video_path>>, r)),
                             !.pc = IF Truthy(r[1]) THEN "confirm" ELSE "end"]
    /\ JobUnchanged

\* process_video_workflow raises (an exception of the oracle): job has no handler
JobProcessRaises ==
    /\ job.pc = "process"
    /\ job' = [job EXCEPT !.calls = Append(@, Call("process", <<job.video_path>>,
                                                   <<"raised", "raised">>)),
                          !.pc = "raised"]
    /\ JobUnchanged

\* variant: the video is posted whatever the user decided
ShouldPost_Always(confirmed) == TRUE
\* line 187
ShouldPost(confirmed) == Truthy(confirmed)

\* lines 183-191
JobConfirm ==
    /\ job.pc = "confirm"
    /\ \E confirmed \in {"True", "False"} :
          job' = [job EXCEPT !.confirmed = confirmed,
                             !.calls = Append(@, Call("confirm",
                                                     <<job.output_video, job.stats>>,
                                                     <<confirmed>>)),
                             !.pc = IF ShouldPost(confirmed) THEN "post" ELSE "end"]
    /\ JobUnchanged

\* lines 188-189: the text carries the episode title and the stats
JobPost ==
    /\ job.pc = "post"
    /\ job' = [job EXCEPT !.calls = Append(@, Call("post",
                                                   <<job.output_video, job.episode[1],
                                                     job.stats>>,
                                                   <<>>)),
                          !.pc = "end"]
    /\ JobUnchanged

\* start_scheduler, lines 201-207: the next weekly job
JobStart ==
    /\ job.pc = "end"
    /\ job.n < MaxJobs
    /\ job' = IdleJob(job.n + 1)
    /\ JobUnchanged

InitJob ==
    /\ job = IdleJob(1)
    /\ duration = 0
    /\ missing = {}
    /\ oracle = [s \in SecondsOf(duration) |-> StrongScore]
    /\ threshold = THRESHOLD
    /\ history = <<>>
    /\ earlier_scenes = <<>>
    /\ config_buffer = BUFFER_DEFAULT
    /\ task = NoTask
    /\ parked = NoParked
    /\ OthersIdle
    /\ Locals

NextJob ==
    JobScrape \/ JobDownload \/ JobProcess \/ JobProcessRaises \/ JobConfirm
       \/ JobPost \/ JobStart

SpecJob == InitJob /\ [][NextJob]_vars

----------------------------------------------------------------------------
(* Two runs of process_video on two videos, in two threads: one run is      *)
(* executing (its locals are the variables of the pipeline), the other is   *)
(* parked; a thread switch exchanges them.                                  *)

\* the video and the locals of the executing run
ThisRun ==
    [pc |-> pc, duration |-> duration, missing |-> missing, oracle |-> oracle,
     coarse_candidates |-> coarse_candidates, idx |-> idx,
     positive_frames |-> positive_frames, scanned_frames |-> scanned_frames,
     final_scenes |-> final_scenes, stats |-> stats, rendered |-> rendered,
     result |-> result, fetch_log |-> fetch_log, classify_log |-> classify_log,
     step |-> step, coarse_log |-> coarse_log, runs |-> runs]

Switch ==
    /\ parked.pc # "none"
    /\ parked' = ThisRun
    /\ pc' = parked.pc
    /\ duration' = parked.duration
    /\ missing' = parked.missing
    /\ oracle' = parked.oracle
    /\ coarse_candidates' = parked.coarse_candidates
    /\ idx' = parked.idx
    /\ positive_frames' = parked.positive_frames
    /\ scanned_frames' = parked.scanned_frames
    /\ final_scenes' = parked.final_scenes
    /\ stats' = parked.stats
    /\ rendered' = parked.rendered
    /\ result' = parked.result
    /\ fetch_log' = parked.fetch_log
    /\ classify_log' = parked.classify_log
    /\ step' = parked.step
    /\ coarse_log' = parked.coarse_log
    /\ runs' = parked.runs
    /\ UNCHANGED <<threshold, history, earlier_scenes, config_buffer, task, job, Others>>

TwoRunDurations == {STEP_COARSE \div 2, MaxDur}

\* a run that has not started, on a video of duration d with oracle o
FreshRun(d, o) ==
    [pc |-> "start", duration |-> d, missing |-> {}, oracle |-> o,
     coarse_candidates |-> <<>>, idx |-> 1, positive_frames |-> {},
     scanned_frames |-> {}, final_scenes |-> <<>>, stats |-> NoStats,
     rendered |-> NotRendered, result |-> NoResult, fetch_log |-> <<>>,
     classify_log |-> <<>>, step |-> [kind |-> "none", time |-> 0],
     coarse_log |-> NoCoarseLog, runs |-> NotGrouped]

InitTwoRuns ==
    /\ duration \in TwoRunDurations
    /\ missing = {}
    /\ oracle \in StretchOracles(duration)
    /\ threshold = THRESHOLD
    /\ history = <<>>
    /\ earlier_scenes = <<>>
    /\ config_buffer = BUFFER_DEFAULT
    /\ task = NoTask
    /\ job = NoJob
    /\ OthersIdle
    /\ parked \in {FreshRun(d, o) : d \in TwoRunDurations, o \in
                       UNION {StretchOracles(dd) : dd \in TwoRunDurations}}
    /\ DOMAIN parked.oracle = SecondsOf(parked.duration)
    /\ Locals

NextTwoRuns == Next \/ Switch

SpecTwoRuns == InitTwoRuns /\ [][NextTwoRuns]_vars

----------------------------------------------------------------------------
(* The other two copies of the pipeline.  scheduler.process_video_workflow  *)
(* classifies one frame at a time; main.main scans in batches like          *)
(* process_video.  Both carry their own constants as locals.                *)

\* step_coarse, threshold, step_fine and buffer as scheduler.py sets them
\* (lines 37, 38, 57 and 58), in ticks and hundredths
WorkflowLocals ==
    [step_coarse |-> 5 * Second, threshold |-> 22, step_fine |-> Second,
     buffer |-> 5 * Second]

\* variant: a score equal to the threshold also passes
WorkflowPositive_NonStrict(pos, neg) == pos >= WorkflowLocals.threshold /\ pos > neg
\* the test of lines 45, 91 and 112
WorkflowPositive(pos, neg) == pos > WorkflowLocals.threshold /\ pos > neg

\* Pass 1 (lines 40-47); acc is [cands, classified], classified the seconds
\* handed to the oracle
RECURSIVE WorkflowCoarse(_, _)
WorkflowCoarse(current_time, acc) ==
    IF current_time < duration
    THEN LET frame == GetFrameAtTime(current_time)
             score == AnalyzeFrame(frame)
         IN  WorkflowCoarse(current_time + WorkflowLocals.step_coarse,
                IF frame = NoFrame
                THEN acc
                ELSE [cands |-> IF WorkflowPositive(score[1], score[2])
                                THEN Append(acc.cands, current_time)
                                ELSE acc.cands,
                      classified |-> acc.classified \cup {IntOf(current_time)}])
    ELSE acc

\* the auto-fill loops of lines 78-81 and 99-102; acc is [positive, scanned,
\* classified]
RECURSIVE WorkflowFill(_, _, _)
WorkflowFill(t, end_search, acc) ==
    IF t < end_search
    THEN WorkflowFill(t + WorkflowLocals.step_fine, end_search,
                      [acc EXCEPT !.positive = @ \cup {IntOf(t)}])
    ELSE acc

\* the per-frame scans of lines 83-93 and 104-114
RECURSIVE WorkflowScan(_, _, _)
WorkflowScan(t, end_search, acc) ==
    IF t < end_search
    THEN LET t_int == IntOf(t)
             frame == GetFrameAtTime(t)
             score == AnalyzeFrame(frame)
         IN  WorkflowScan(t + WorkflowLocals.step_fine, end_search,
                IF t_int \in acc.scanned \/ frame = NoFrame
                THEN acc
                ELSE [positive |-> IF WorkflowPositive(score[1], score[2])
                                   THEN acc.positive \cup {t_int}
                                   ELSE acc.positive,
                      scanned |-> acc.scanned \cup {t_int},
                      classified |-> acc.classified \cup {t_int}])
    ELSE acc

\* one side of a candidate (lines 75-93 and 96-114)
WorkflowSide(start_search, end_search, has_neighbor, acc) ==
    IF has_neighbor
    THEN WorkflowFill(start_search, end_search, acc)
    ELSE WorkflowScan(start_search, end_search, acc)

\* Pass 2 (lines 63-114), i counted from 1
RECURSIVE WorkflowFine(_, _, _)
WorkflowFine(cands, i, acc) ==
    IF i > Len(cands)
    THEN acc
    ELSE LET current_time == cands[i]
             step_coarse == WorkflowLocals.step_coarse
             buffer == WorkflowLocals.buffer
             has_left_neighbor ==
                 /\ i > 1
                 /\ Abs(current_time - cands[i - 1] - step_coarse) < NEIGHBOR_TOLERANCE
             has_right_neighbor ==
                 /\ i < Len(cands)
                 /\ Abs(cands[i + 1] - current_time - step_coarse) < NEIGHBOR_TOLERANCE
             left == WorkflowSide(Max(0, current_time - buffer), current_time,
                                  has_left_neighbor, acc)
         IN  WorkflowFine(cands, i + 1,
                IF has_left_neighbor /\ has_right_neighbor
                THEN [acc EXCEPT !.positive =
                         @ \cup Range(IntOf(current_time - buffer),
                                      IntOf(current_time + buffer))]
                ELSE WorkflowSide(current_time, Min(duration, current_time + buffer),
                                  has_right_neighbor, left))

\* the grouping loop of lines 125-132
RECURSIVE WorkflowGroup(_, _, _, _, _)
WorkflowGroup(sorted_frames, k, current_start, current_end, scenes) ==
    IF k > Len(sorted_frames)
    THEN Append(scenes, <<current_start, current_end>>)
    ELSE LET f == sorted_frames[k]
         IN  IF f <= current_end + 2
             THEN WorkflowGroup(sorted_frames, k + 1, current_start, f, scenes)
             ELSE WorkflowGroup(sorted_frames, k + 1, f, f,
                                Append(scenes, <<current_start, current_end>>))

\* lines 34-134: where the function stands when it returns or reaches the
\* statistics, and its locals there (an unassigned local shown empty)
ProcessVideoWorkflow ==
    LET scan == WorkflowCoarse(0, [cands |-> <<>>, classified |-> {}])
        coarse_candidates_ == SortSeq(scan.cands, LAMBDA a, b : a < b)
        fine == WorkflowFine(coarse_candidates_, 1,
                             [positive |-> {}, scanned |-> {},
                              classified |-> scan.classified])
        sorted_frames == Sorted(fine.positive)
        scenes == WorkflowGroup(sorted_frames, 2, sorted_frames[1], sorted_frames[1],
                                <<>>)
    IN  IF Len(scan.cands) = 0
        THEN [returned |-> "no candidates", candidates |-> scan.cands,
              positive |-> {}, scenes |-> <<>>, classified |-> scan.classified]
        ELSE IF Len(sorted_frames) = 0
        THEN [returned |-> "no frames", candidates |-> coarse_candidates_,
              positive |-> fine.positive, scenes |-> <<>>,
              classified |-> fine.classified]
        ELSE [returned |-> "statistics", candidates |-> coarse_candidates_,
              positive |-> fine.positive,
              scenes |-> SelectSeq(scenes, LAMBDA s : (s[2] - s[1]) >= 2),
              classified |-> fine.classified]

\* process_video_workflow as a whole: lines 136-158 render the scenes and
\* return the file, or None when the renderer raises
SchedulerWorkflow ==
    /\ pc = "done"
    /\ copies.scheduler = NotRun
    /\ LET w == ProcessVideoWorkflow
       IN  \E ok \in BOOLEAN :
              copies' = [copies EXCEPT !.scheduler =
                            [w EXCEPT !.returned =
                                IF @ = "statistics"
                                THEN (IF ok THEN "output" ELSE "render failed")
                                ELSE @]]
    /\ UNCHANGED <<pc, duration, missing, oracle, threshold, coarse_candidates, idx,
                   positive_frames, scanned_frames, final_scenes, stats, rendered,
                   result, fetch_log, classify_log, step, history, earlier_scenes,
                   coarse_log, runs, config_buffer, task, job, parked,
                   tasks, worker, tasks_lock, request, response>>

\* step_coarse, threshold, step_fine, buffer and batch_size as main.py sets
\* them (lines 31, 32, 62, 63, 115 and 155)
MainLocals ==
    [step_coarse |-> 5 * Second, threshold |-> 22, step_fine |-> Second,
     buffer |-> 5 * Second, batch_size |-> 8]

\* the test of lines 44, 131 and 171
MainPositive(pos_score, neg_score) ==
    pos_score > MainLocals.threshold /\ pos_score > neg_score

\* Pass 1 (lines 34-48); acc is [cands, classified]
RECURSIVE MainCoarse(_, _)
MainCoarse(current_time, acc) ==
    IF current_time < duration
    THEN LET frame == GetFrameAtTime(current_time)
             score == AnalyzeFrame(frame)
         IN  MainCoarse(current_time + MainLocals.step_coarse,
                IF frame = NoFrame
                THEN acc
                ELSE [cands |-> IF MainPositive(score[1], score[2])
                                THEN Append(acc.cands, current_time)
                                ELSE acc.cands,
                      classified |-> acc.classified \cup {IntOf(current_time)}])
    ELSE acc

\* the auto-fill loops of lines 100-103 and 140-143
RECURSIVE MainFill(_, _, _)
MainFill(t, end_search, acc) ==
    IF t < end_search
    THEN MainFill(t + MainLocals.step_fine, end_search,
                  [acc EXCEPT !.positive = @ \cup {IntOf(t)}])
    ELSE acc

\* timestamps_to_scan as lines 106-112 and 146-152 collect it
RECURSIVE MainTimestamps(_, _, _)
MainTimestamps(t, end_search, scanned) ==
    IF t < end_search
    THEN (IF IntOf(t) \notin scanned THEN <<t>> ELSE <<>>)
         \o MainTimestamps(t + MainLocals.step_fine, end_search, scanned)
    ELSE <<>>

\* the batch loops of lines 116-132 and 156-172, i counted from 0
RECURSIVE MainBatches(_, _, _)
MainBatches(timestamps_to_scan, i, acc) ==
    IF i < Len(timestamps_to_scan)
    THEN LET batch_times == SubSeq(timestamps_to_scan, i + 1,
                                   Min(Len(timestamps_to_scan),
                                       i + MainLocals.batch_size))
             valid_times == SelectSeq(batch_times,
                                      LAMBDA bt : GetFrameAtTime(bt) # NoFrame)
             frames == [j \in 1..Len(valid_times) |-> GetFrameAtTime(valid_times[j])]
             results == IF Len(frames) > 0 THEN AnalyzeBatch(frames) ELSE <<>>
             js == 1..Len(results)
         IN  MainBatches(timestamps_to_scan, i + MainLocals.batch_size,
                [positive |-> acc.positive
                     \cup {IntOf(valid_times[j]) :
                              j \in {k \in js : MainPositive(results[k][1],
                                                             results[k][2])}},
                 scanned |-> acc.scanned \cup {IntOf(valid_times[j]) : j \in js},
                 classified |-> acc.classified
                                    \cup {IntOf(valid_times[j]) : j \in js}])
    ELSE acc

\* one side of a candidate (lines 95-132 and 135-172)
MainSide(start_search, end_search, has_neighbor, acc) ==
    IF has_neighbor
    THEN MainFill(start_search, end_search, acc)
    ELSE MainBatches(MainTimestamps(start_search, end_search, acc.scanned), 0, acc)

\* Pass 2 (lines 68-172), i counted from 1; the surrounded candidate marks
\* its left interval, then its right interval (lines 82-91)
RECURSIVE MainFine(_, _, _)
MainFine(cands, i, acc) ==
    IF i > Len(cands)
    THEN acc
    ELSE LET current_time == cands[i]
             step_coarse == MainLocals.step_coarse
             buffer == MainLocals.buffer
             has_left_neighbor ==
                 /\ i > 1
                 /\ Abs(current_time - cands[i - 1] - step_coarse) < NEIGHBOR_TOLERANCE
             has_right_neighbor ==
                 /\ i < Len(cands)
                 /\ Abs(cands[i + 1] - current_time - step_coarse) < NEIGHBOR_TOLERANCE
             left == MainSide(Max(0, current_time - buffer), current_time,
                              has_left_neighbor, acc)
         IN  MainFine(cands, i + 1,
                IF has_left_neighbor /\ has_right_neighbor
                THEN [acc EXCEPT !.positive =
                         @ \cup Range(IntOf(current_time - buffer), IntOf(current_time))
                           \cup Range(IntOf(current_time), IntOf(current_time + buffer))]
                ELSE MainSide(current_time, Min(duration, current_time + buffer),
                              has_right_neighbor, left))

\* the grouping loop of lines 189-196
RECURSIVE MainGroup(_, _, _, _, _)
MainGroup(sorted_frames, k, current_start, current_end, scenes) ==
    IF k > Len(sorted_frames)
    THEN Append(scenes, <<current_start, current_end>>)
    ELSE LET f == sorted_frames[k]
         IN  IF f <= current_end + 2
             THEN MainGroup(sorted_frames, k + 1, current_start, f, scenes)
             ELSE MainGroup(sorted_frames, k + 1, f, f,
                            Append(scenes, <<current_start, current_end>>))

\* lines 27-199: where main stands when it returns or reaches the statistics,
\* and its locals there (an unassigned local shown empty)
MainPipeline ==
    LET scan == MainCoarse(0, [cands |-> <<>>, classified |-> {}])
        coarse_candidates_ == SortSeq(scan.cands, LAMBDA a, b : a < b)
        fine == MainFine(coarse_candidates_, 1,
                         [positive |-> {}, scanned |-> {},
                          classified |-> scan.classified])
        sorted_frames == Sorted(fine.positive)
        scenes == MainGroup(sorted_frames, 2, sorted_frames[1], sorted_frames[1], <<>>)
    IN  IF Len(scan.cands) = 0
        THEN [returned |-> "no candidates", candidates |-> scan.cands,
              positive |-> {}, scenes |-> <<>>, classified |-> scan.classified]
        ELSE IF Len(sorted_frames) = 0
        THEN [returned |-> "no frames", candidates |-> coarse_candidates_,
              positive |-> fine.positive, scenes |-> <<>>,
              classified |-> fine.classified]
        ELSE [returned |-> "statistics", candidates |-> coarse_candidates_,
              positive |-> fine.positive,
              scenes |-> SelectSeq(scenes, LAMBDA s : (s[2] - s[1]) >= 2),
              classified |-> fine.classified]

\* main as a whole: lines 201-232 log the statistics and render; a failure
\* of the renderer is logged and main ends all the same
Main ==
    /\ pc = "done"
    /\ copies.main = NotRun
    /\ copies' = [copies EXCEPT !.main =
                     [MainPipeline EXCEPT !.returned =
                         IF @ = "statistics" THEN "finished" ELSE @]]
    /\ UNCHANGED <<pc, duration, missing, oracle, threshold, coarse_candidates, idx,
                   positive_frames, scanned_frames, final_scenes, stats, rendered,
                   result, fetch_log, classify_log, step, history, earlier_scenes,
                   coarse_log, runs, config_buffer, task, job, parked,
                   tasks, worker, tasks_lock, request, response>>

\* videos without a full coarse step, with one, and of the greatest length
CopyDurations == {0, STEP_COARSE \div 2, STEP_COARSE + STEP_COARSE \div 2, MaxDur}

\* the three copies run on the same video, frame source and oracle
InitCopies ==
    /\ duration \in CopyDurations
    /\ missing \in MissingSets(duration)
    /\ oracle \in [SecondsOf(duration) -> {StrongScore, AtThresholdScore}]
    /\ threshold = THRESHOLD
    /\ history = <<>>
    /\ earlier_scenes = <<>>
    /\ DirectCall
    /\ Locals

NextCopies == Next \/ SchedulerWorkflow \/ Main

SpecCopies == InitCopies /\ [][NextCopies]_vars

----------------------------------------------------------------------------
(* The API task store.  Endpoint handlers are coroutines without an await   *)
(* between their statements on the store, so the event loop runs one at a   *)
(* time; _process_video_task is a plain function run on a worker thread per *)
(* task.  Both sides take tasks_lock around their accesses to the dict, the *)
(* handlers read the fields of a TaskInfo after releasing it.               *)

Now == "isoformat"
KeyError == "KeyError"

\* TaskInfo as analyze_video builds it (lines 162-167; defaults of lines 56-61)
NewTaskInfo(task_id) ==
    [task_id |-> task_id, status |-> "pending", created_at |-> Now,
     started_at |-> "None", completed_at |-> "None", video_filename |-> "video.mp4",
     output_file |-> "None", error_message |-> "None", stats |-> NoStats]

\* tasks[task_id] = task_info (line 170)
Put(store, task_id, task_info) ==
    [i \in DOMAIN store \cup {task_id} |-> IF i = task_id THEN task_info ELSE store[i]]

\* del tasks[task_id] (lines 267 and 295)
Del(store, task_id) == [i \in DOMAIN store \ {task_id} |-> store[i]]

\* what a call of process_video can yield: a file with its stats, (None, None),
\* (None, stats) after a failed rendering, or an exception
ProcessVideoOutcomes ==
    LET some_stats == CalculateStats(<<<<0, MIN_SCENE_DURATION>>>>, STEP_COARSE)
    IN  {[output_file |-> "file", stats |-> some_stats, error |-> "none"],
         [output_file |-> "None", stats |-> some_stats, error |-> "none"],
         NoneNone}
            \cup {Raised(e) : e \in OracleErrors}

Terminal == {"completed", "failed"}

At(task_id, line) == worker[task_id].pc = line
Goto(task_id, line) == worker' = [worker EXCEPT ![task_id].pc = line]
Holds(task_id) == tasks_lock = <<"worker", task_id>>
StoreUnchanged ==
    UNCHANGED <<pc, duration, missing, oracle, threshold, coarse_candidates, idx,
                positive_frames, scanned_frames, final_scenes, stats, rendered,
                result, fetch_log, classify_log, step, history, earlier_scenes,
                coarse_log, runs, config_buffer, task, job, parked, copies>>

\* lines 131-186: the upload is saved, the task entered as PENDING under the
\* lock and the worker queued
AnalyzeVideo ==
    /\ request = NoRequest
    /\ tasks_lock = Free
    /\ \E task_id \in TaskIds :
          /\ At(task_id, "none")
          /\ \A other \in TaskIds : other < task_id => ~At(other, "none")
          /\ tasks' = Put(tasks, task_id, NewTaskInfo(task_id))
          /\ worker' = [worker EXCEPT ![task_id].pc = "line 78"]
          /\ response' = [code |-> 200, task_id |-> task_id, status |-> "pending"]
    /\ UNCHANGED <<tasks_lock, request>>
    /\ StoreUnchanged

\* tasks[task_id] of lines 79, 88, 93 and 102 finds the entry
Lookup(task_id) == task_id \in DOMAIN tasks

\* lines 78-79: the lock is taken and the task marked PROCESSING; a missing
\* entry raises KeyError, which releases the lock and enters line 99
WorkerProcessing(task_id) ==
    /\ At(task_id, "line 78")
    /\ tasks_lock = Free
    /\ IF Lookup(task_id)
       THEN /\ tasks' = [tasks EXCEPT ![task_id].status = "processing"]
            /\ tasks_lock' = <<"worker", task_id>>
            /\ Goto(task_id, "line 80")
       ELSE /\ worker' = [worker EXCEPT ![task_id].pc = "line 101",
                                        ![task_id].e = KeyError]
            /\ UNCHANGED <<tasks, tasks_lock>>
    /\ UNCHANGED <<request, response>>
    /\ StoreUnchanged

\* line 80, and the lock released
WorkerStartedAt(task_id) ==
    /\ At(task_id, "line 80")
    /\ Holds(task_id)
    /\ tasks' = [tasks EXCEPT ![task_id].started_at = Now]
    /\ tasks_lock' = Free
    /\ Goto(task_id, "line 84")
    /\ UNCHANGED <<request, response>>
    /\ StoreUnchanged

\* line 84: process_video returns a pair or raises
WorkerProcessVideo(task_id) ==
    /\ At(task_id, "line 84")
    /\ \E res \in ProcessVideoOutcomes :
          worker' = [worker EXCEPT
                        ![task_id] =
                            IF res.output_file = "raised"
                            THEN [@ EXCEPT !.pc = "line 101", !.e = res.error]
                            ELSE [@ EXCEPT !.pc = "line 86",
                                           !.output_file = res.output_file,
                                           !.stats = res.stats]]
    /\ UNCHANGED <<tasks, tasks_lock, request, response>>
    /\ StoreUnchanged

\* lines 86-88 and 92-93: the lock is taken and the verdict stored
WorkerVerdict(task_id) ==
    /\ At(task_id, "line 86")
    /\ tasks_lock = Free
    /\ IF Lookup(task_id)
       THEN /\ tasks_lock' = <<"worker", task_id>>
            /\ IF worker[task_id].output_file # "None"
               THEN /\ tasks' = [tasks EXCEPT ![task_id].status = "completed"]
                    /\ Goto(task_id, "line 89")
               ELSE /\ tasks' = [tasks EXCEPT ![task_id].status = "failed"]
                    /\ Goto(task_id, "line 94")
       ELSE /\ worker' = [worker EXCEPT ![task_id].pc = "line 101",
                                        ![task_id].e = KeyError]
            /\ UNCHANGED <<tasks, tasks_lock>>
    /\ UNCHANGED <<request, response>>
    /\ StoreUnchanged

\* line 89
WorkerOutputFile(task_id) ==
    /\ At(task_id, "line 89")
    /\ Holds(task_id)
    /\ tasks' = [tasks EXCEPT ![task_id].output_file = worker[task_id].output_file]
    /\ Goto(task_id, "line 90")
    /\ UNCHANGED <<tasks_lock, request, response>>
    /\ StoreUnchanged

\* line 90
WorkerStats(task_id) ==
    /\ At(task_id, "line 90")
    /\ Holds(task_id)
    /\ tasks' = [tasks EXCEPT ![task_id].stats = worker[task_id].stats]
    /\ Goto(task_id, "line 97")
    /\ UNCHANGED <<tasks_lock, request, response>>
    /\ StoreUnchanged

\* line 94
WorkerNoOutput(task_id) ==
    /\ At(task_id, "line 94")
    /\ Holds(task_id)
    /\ tasks' = [tasks EXCEPT ![task_id].error_message = NoScenesMessage]
    /\ Goto(task_id, "line 97")
    /\ UNCHANGED <<tasks_lock, request, response>>
    /\ StoreUnchanged

\* line 97, and the lock released: the worker is through
WorkerCompletedAt(task_id) ==
    /\ At(task_id, "line 97")
    /\ Holds(task_id)
    /\ tasks' = [tasks EXCEPT ![task_id].completed_at = Now]
    /\ tasks_lock' = Free
    /\ Goto(task_id, "returned")
    /\ UNCHANGED <<request, response>>
    /\ StoreUnchanged

\* lines 99-102: the handler takes the lock and marks the task FAILED; a
\* missing entry raises KeyError out of the worker
WorkerExcept(task_id) ==
    /\ At(task_id, "line 101")
    /\ tasks_lock = Free
    /\ IF Lookup(task_id)
       THEN /\ tasks' = [tasks EXCEPT ![task_id].status = "failed"]
            /\ tasks_lock' = <<"worker", task_id>>
            /\ Goto(task_id, "line 103")
       ELSE /\ Goto(task_id, "raised")
            /\ UNCHANGED <<tasks, tasks_lock>>
    /\ UNCHANGED <<request, response>>
    /\ StoreUnchanged

\* line 103
WorkerErrorMessage(task_id) ==
    /\ At(task_id, "line 103")
    /\ Holds(task_id)
    /\ tasks' = [tasks EXCEPT ![task_id].error_message = worker[task_id].e]
    /\ Goto(task_id, "line 104")
    /\ UNCHANGED <<tasks_lock, request, response>>
    /\ StoreUnchanged

\* line 104, and the lock released
WorkerFailedAt(task_id) ==
    /\ At(task_id, "line 104")
    /\ Holds(task_id)
    /\ tasks' = [tasks EXCEPT ![task_id].completed_at = Now]
    /\ tasks_lock' = Free
    /\ Goto(task_id, "returned")
    /\ UNCHANGED <<request, response>>
    /\ StoreUnchanged

\* one statement of _process_video_task
Worker(task_id) ==
    \/ WorkerProcessing(task_id)
    \/ WorkerStartedAt(task_id)
    \/ WorkerProcessVideo(task_id)
    \/ WorkerVerdict(task_id)
    \/ WorkerOutputFile(task_id)
    \/ WorkerStats(task_id)
    \/ WorkerNoOutput(task_id)
    \/ WorkerCompletedAt(task_id)
    \/ WorkerExcept(task_id)
    \/ WorkerErrorMessage(task_id)
    \/ WorkerFailedAt(task_id)

\* GET /tasks/{task_id}, lines 211-215: the entry is fetched under the lock
GetTaskStatus(task_id) ==
    /\ request = NoRequest
    /\ tasks_lock = Free
    /\ IF task_id \in DOMAIN tasks
       THEN /\ request' = [kind |-> "get_task_status", task_id |-> task_id]
            /\ UNCHANGED response
       ELSE /\ response' = [code |-> 404, task_id |-> task_id]
            /\ UNCHANGED request
    /\ UNCHANGED <<tasks, worker, tasks_lock>>
    /\ StoreUnchanged

\* line 217: the TaskInfo is returned and its fields are read for the answer,
\* the lock no longer held
GetTaskStatusReturn ==
    /\ request.kind = "get_task_status"
    /\ response' = [code |-> 200, task_id |-> request.task_id,
                    body |-> tasks[request.task_id]]
    /\ request' = NoRequest
    /\ UNCHANGED <<tasks, worker, tasks_lock>>
    /\ StoreUnchanged

\* POST /cleanup/{task_id}, lines 248-263: the entry is fetched under the
\* lock and only tested for None, then the files of the task are removed
CleanupTask(task_id) ==
    /\ request = NoRequest
    /\ tasks_lock = Free
    /\ IF task_id \in DOMAIN tasks
       THEN /\ request' = [kind |-> "cleanup_task", task_id |-> task_id]
            /\ UNCHANGED response
       ELSE /\ response' = [code |-> 404, task_id |-> task_id]
            /\ UNCHANGED request
    /\ UNCHANGED <<tasks, worker, tasks_lock>>
    /\ StoreUnchanged

\* lines 266-273: the entry is deleted under the lock; a KeyError is
\* answered with status 500
CleanupTaskDelete ==
    /\ request.kind = "cleanup_task"
    /\ tasks_lock = Free
    /\ IF request.task_id \in DOMAIN tasks
       THEN /\ tasks' = Del(tasks, request.task_id)
            /\ response' = [code |-> 200, task_id |-> request.task_id]
       ELSE /\ response' = [code |-> 500, task_id |-> request.task_id]
            /\ UNCHANGED tasks
    /\ request' = NoRequest
    /\ UNCHANGED <<worker, tasks_lock>>
    /\ StoreUnchanged

\* DELETE /cleanup, lines 279-283: the items of the store are listed under
\* the lock, in the order of their insertion
CleanupAll ==
    /\ request = NoRequest
    /\ tasks_lock = Free
    /\ request' = [kind |-> "cleanup_all", task_list |-> Sorted(DOMAIN tasks),
                   deleting |-> FALSE, removed_tasks |-> <<>>]
    /\ UNCHANGED <<tasks, worker, tasks_lock, response>>
    /\ StoreUnchanged

\* lines 285-292: the status of the next listed task is read, the lock not
\* held; the files of a finished task are removed
CleanupAllStatus ==
    /\ request.kind = "cleanup_all"
    /\ ~request.deleting
    /\ Len(request.task_list) > 0
    /\ LET task_id == Head(request.task_list)
       IN  request' = IF tasks[task_id].status \in Terminal
                      THEN [request EXCEPT !.deleting = TRUE]
                      ELSE [request EXCEPT !.task_list = Tail(@)]
    /\ UNCHANGED <<tasks, worker, tasks_lock, response>>
    /\ StoreUnchanged

\* lines 294-298: the entry is deleted under the lock
CleanupAllDelete ==
    /\ request.kind = "cleanup_all"
    /\ request.deleting
    /\ tasks_lock = Free
    /\ LET task_id == Head(request.task_list)
       IN  IF task_id \in DOMAIN tasks
           THEN /\ tasks' = Del(tasks, task_id)
                /\ request' = [request EXCEPT !.task_list = Tail(@),
                                              !.deleting = FALSE,
                                              !.removed_tasks = Append(@, task_id)]
                /\ UNCHANGED response
           ELSE /\ response' = [code |-> 500, removed_tasks |-> request.removed_tasks]
                /\ request' = NoRequest
                /\ UNCHANGED tasks
    /\ UNCHANGED <<worker, tasks_lock>>
    /\ StoreUnchanged

\* lines 300-304
CleanupAllReturn ==
    /\ request.kind = "cleanup_all"
    /\ Len(request.task_list) = 0
    /\ response' = [code |-> 200, removed_tasks |-> request.removed_tasks]
    /\ request' = NoRequest
    /\ UNCHANGED <<tasks, worker, tasks_lock>>
    /\ StoreUnchanged

\* the event loop executes the next statement of the handler it is in, or
\* takes up a request
Handler ==
    \/ AnalyzeVideo
    \/ \E task_id \in TaskIds : GetTaskStatus(task_id)
    \/ GetTaskStatusReturn
    \/ \E task_id \in TaskIds : CleanupTask(task_id)
    \/ CleanupTaskDelete
    \/ CleanupAll
    \/ CleanupAllStatus
    \/ CleanupAllDelete
    \/ CleanupAllReturn

InitStore ==
    /\ duration = 0
    /\ missing = {}
    /\ oracle = <<>>
    /\ threshold = THRESHOLD
    /\ history = <<>>
    /\ earlier_scenes = <<>>
    /\ DirectCall
    /\ Locals

NextStore == Handler \/ \E task_id \in TaskIds : Worker(task_id)

SpecStore == InitStore /\ [][NextStore]_vars

\* the event loop and every worker thread keep running
SpecStoreLive ==
    /\ SpecStore
    /\ WF_vars(Handler)
    /\ \A task_id \in TaskIds : WF_vars(Worker(task_id))

----------------------------------------------------------------------------
(* Properties *)

AfterPass2 == pc \in {"group", "stats", "done"} /\ Len(coarse_candidates) > 0

SceneSet(scenes) == {scenes[k] : k \in 1..Len(scenes)}
CandidateSet == {coarse_candidates[k] : k \in 1..Len(coarse_candidates)}

\* C1 as stated: after Pass 2 every member t of PositiveFrameSet satisfies
\* 0 <= t < floor(video_duration).
C1_BelowFloorOfDuration ==
    AfterPass2 => \A t \in positive_frames : 0 <= t /\ t < duration \div Second

\* C1 amended: after Pass 2 every member t of PositiveFrameSet satisfies
\* 0 <= t < video_duration; for a fractional duration t may be floor(video_duration).
C1_BelowDuration ==
    AfterPass2 => \A t \in positive_frames : 0 <= t /\ t * Second < duration

\* a fractional duration whose last, partial second was found positive
C1_Witness ==
    /\ AfterPass2
    /\ duration % Second # 0
    /\ (duration \div Second) \in positive_frames

\* C2: the scene list of the Grouper is sorted by strictly ascending start and
\* its scenes do not overlap: consecutive scenes satisfy s1 <= e1 < s2 <= e2.
C2_ScenesAscendingDisjoint ==
    /\ \A k \in 1..Len(final_scenes) : final_scenes[k][1] <= final_scenes[k][2]
    /\ \A k \in 1..(Len(final_scenes) - 1) : final_scenes[k][2] < final_scenes[k + 1][1]

\* the Grouper has emitted three scenes
C2_Witness == pc = "stats" /\ Len(final_scenes) >= 3

\* C3: every scene the Grouper emits, every scene handed to the renderer and
\* every scene counted by the statistics spans at least MIN_SCENE_DURATION,
\* so an isolated positive second is in no scene.
C3_ScenesLongEnough ==
    /\ \A s \in SceneSet(final_scenes) : s[2] - s[1] >= MIN_SCENE_DURATION
    /\ rendered # NotRendered =>
          \A s \in SceneSet(rendered) : s[2] - s[1] >= MIN_SCENE_DURATION
    /\ stats # NoStats =>
          stats.total_duration >= MIN_SCENE_DURATION * stats.num_scenes
    /\ pc \in {"stats", "done"} =>
          \A t \in positive_frames :
             (\A u \in positive_frames : u # t => Abs(u - t) > MIN_GAP_THRESHOLD)
                => \A s \in SceneSet(final_scenes) : t < s[1] \/ t > s[2]

\* scenes were rendered although the positive set holds an isolated second
C3_Witness ==
    /\ pc = "done"
    /\ rendered # NotRendered
    /\ Len(rendered) >= 1
    /\ \E t \in positive_frames :
          \A u \in positive_frames : u # t => Abs(u - t) > MIN_GAP_THRESHOLD

\* the candidate the Pass 2 loop is at has candidates one coarse step to
\* its left and to its right
Surrounded ==
    /\ pc = "fine"
    /\ idx <= Len(coarse_candidates)
    /\ coarse_candidates[idx] - STEP_COARSE \in CandidateSet
    /\ coarse_candidates[idx] + STEP_COARSE \in CandidateSet

\* the whole seconds of [c - BUFFER, c + BUFFER)
BufferWindow(c) ==
    {t \in IntOf(c - BUFFER)..IntOf(c + BUFFER) :
        c - BUFFER <= t * Second /\ t * Second < c + BUFFER}

\* C4: the Pass 2 iteration of a candidate with both neighbours fetches no
\* frame, calls the oracle for nothing and adds exactly the seconds of
\* [c - BUFFER, c + BUFFER) to PositiveFrameSet.
C4_SurroundedAutoFill ==
    [][Surrounded =>
         /\ fetch_log' = fetch_log
         /\ classify_log' = classify_log
         /\ scanned_frames' = scanned_frames
         /\ positive_frames' = positive_frames \cup BufferWindow(coarse_candidates[idx])]_vars

\* the candidate at 5 s was auto-filled between candidates at 0 s and 10 s
C4_Witness ==
    /\ step.kind = "autofill"
    /\ step.time = STEP_COARSE
    /\ BufferWindow(STEP_COARSE) \subseteq positive_frames

C6_ThresholdMonotone ==
    pc \in {"group", "stats", "done"} =>
       \A k \in 1..Len(history) :
          /\ history[k].threshold < threshold => positive_frames \subseteq history[k].positive
          /\ history[k].threshold > threshold => history[k].positive \subseteq positive_frames

\* the raised threshold removed a candidate, the run scanned a window the
\* earlier run had auto-filled, and it found fewer positive seconds
C6_Witness ==
    /\ pc = "done"
    /\ Len(history) >= 1
    /\ history[1].threshold < threshold
    /\ Len(coarse_candidates) >= 1
    /\ Len(history[1].candidates) > Len(coarse_candidates)
    /\ Len(classify_log) > 0
    /\ \E i \in 1..Len(classify_log) : classify_log[i] \notin history[1].scanned
    /\ positive_frames # {}
    /\ positive_frames # history[1].positive

\* C7: grouping the flattened seconds of the Grouper's output gives the same
\* scene list again.
C7_GroupingIdempotent ==
    (Len(earlier_scenes) > 0 /\ pc \in {"stats", "done"}) =>
       final_scenes = earlier_scenes[Len(earlier_scenes)]

\* a list of two scenes was flattened and grouped again
C7_Witness ==
    /\ Len(earlier_scenes) > 0
    /\ pc = "stats"
    /\ Len(earlier_scenes[Len(earlier_scenes)]) >= 2

\* C8: for video_duration > 0 the percentage lies in 0..100, that is, the
\* summed scene lengths do not exceed the duration.
C8_CoverageBound ==
    (stats # NoStats /\ duration > 0) =>
       /\ 0 <= stats.pct_num
       /\ stats.pct_num <= 100 * stats.pct_den
       /\ stats.total_duration * Second <= duration

\* the scenes cover at least nine tenths of the video
C8_Witness ==
    /\ stats # NoStats
    /\ duration > 0
    /\ stats.pct_num * 10 >= 9 * 100 * stats.pct_den

\* C9: two runs on the same video with the same oracle, frame source and
\* threshold give the same candidates, PositiveFrameSet, scenes and stats.
C9_Deterministic ==
    pc = "done" =>
       \A k \in 1..Len(history) :
          history[k].threshold = threshold =>
             /\ history[k].candidates = coarse_candidates
             /\ history[k].positive = positive_frames
             /\ history[k].scenes = final_scenes
             /\ history[k].stats = stats

\* a second run under the same threshold that scanned frames and found scenes
C9_Witness ==
    /\ pc = "done"
    /\ Len(history) >= 1
    /\ history[1].threshold = threshold
    /\ Len(classify_log) > 0
    /\ Len(final_scenes) >= 1
    /\ stats # NoStats

\* the positivity test as the specification words it
ScoresPositive(score) == score[1] > THRESHOLD /\ score[1] > score[2]

\* C10 as stated: after Pass 2 PositiveFrameSet holds every second of the
\* video whose frame is available and which the oracle scores positive.
C10_AllPositiveSecondsFound ==
    AfterPass2 =>
       \A t \in SecondsOf(duration) :
          (t \notin missing /\ ScoresPositive(oracle[t])) => t \in positive_frames

\* C10 amended: after Pass 2 PositiveFrameSet holds every such second that
\* lies within BUFFER of a Candidate c (c - BUFFER <= t < c + BUFFER).
C10_PositiveSecondsNearCandidatesFound ==
    AfterPass2 =>
       \A t \in SecondsOf(duration) :
          (/\ t \notin missing
           /\ ScoresPositive(oracle[t])
           /\ \E c \in CandidateSet : c - BUFFER <= t * Second /\ t * Second < c + BUFFER)
             => t \in positive_frames

\* a scanned second that is no candidate was found positive, while a positive
\* second farther than BUFFER from every candidate was missed
C10_Witness ==
    /\ AfterPass2
    /\ \E i \in 1..Len(classify_log) :
          /\ classify_log[i] * Second \notin CandidateSet
          /\ classify_log[i] \in positive_frames
    /\ \E t \in SecondsOf(duration) :
          /\ t \notin missing
          /\ ScoresPositive(oracle[t])
          /\ t \notin positive_frames

\* the timestamps k * STEP_COARSE with k >= 0 that lie before the duration
CoarseTimes == {t \in 0..(duration - 1) : t % STEP_COARSE = 0}

FrameAvailable(t) == t >= 0 /\ t < duration /\ (t \div Second) \notin missing

\* C11: Pass 1 visits exactly the timestamps k * STEP_COARSE < video_duration,
\* in ascending order, and a visited timestamp whose frame is available is a
\* Candidate exactly when pos > THRESHOLD and pos > neg, both strictly.
C11_CoarseVisitsAndStrictTest ==
    pc # "start" =>
       /\ Len(coarse_log.visited) = Cardinality(CoarseTimes)
       /\ \A i \in 1..Len(coarse_log.visited) : coarse_log.visited[i] \in CoarseTimes
       /\ \A i, j \in 1..Len(coarse_log.visited) :
             i < j => coarse_log.visited[i] < coarse_log.visited[j]
       /\ CandidateSet \subseteq {t \in CoarseTimes : FrameAvailable(t)}
       /\ \A t \in CoarseTimes :
             FrameAvailable(t) =>
                (t \in CandidateSet <=>
                    (oracle[t \div Second][1] > THRESHOLD
                     /\ oracle[t \div Second][1] > oracle[t \div Second][2]))

\* three timestamps were visited: one scored exactly at the threshold, one
\* scored a tie, neither is a Candidate, and the third is one
C11_Witness ==
    /\ pc # "start"
    /\ Len(coarse_log.visited) = 3
    /\ missing = {}
    /\ \E a, b, c \in CoarseTimes :
          /\ oracle[a \div Second] = AtThresholdScore /\ a \notin CandidateSet
          /\ oracle[b \div Second] = TieScore /\ b \notin CandidateSet
          /\ oracle[c \div Second] = StrongScore /\ c \in CandidateSet

\* x and y are neighbours in the ascending order of the set P
Consecutive(P, x, y) == x \in P /\ y \in P /\ x < y /\ ~(\E z \in P : x < z /\ z < y)

\* C12: the Grouper scans the sorted positive seconds once; a second f joins
\* the current run exactly when f <= current end + MIN_GAP_THRESHOLD, else it
\* closes the run and starts a new one at f, and the last run is always
\* closed.  For {10,11,12,16,17,30} the runs before filtering are (10,12),
\* (16,17), (30,30) and only (10,12) is emitted.
C12_RunsSplitAtGaps ==
    runs # NotGrouped =>
       /\ (positive_frames = {}) <=> (Len(runs) = 0)
       /\ \A i \in 1..Len(runs) :
             /\ runs[i][1] \in positive_frames
             /\ runs[i][2] \in positive_frames
             /\ runs[i][1] <= runs[i][2]
       /\ Len(runs) > 0 =>
             /\ \A f \in positive_frames : runs[1][1] <= f /\ f <= runs[Len(runs)][2]
       /\ \A x, y \in positive_frames :
             Consecutive(positive_frames, x, y) =>
                IF y <= x + 2
                THEN \E i \in 1..Len(runs) : runs[i][1] <= x /\ y <= runs[i][2]
                ELSE \E i \in 1..(Len(runs) - 1) : runs[i][2] = x /\ runs[i + 1][1] = y
       /\ positive_frames = {10, 11, 12, 16, 17, 30} =>
             /\ runs = << <<10, 12>>, <<16, 17>>, <<30, 30>> >>
             /\ final_scenes = << <<10, 12>> >>

\* the Grouper has run on {10,11,12,16,17,30}
C12_Witness ==
    /\ runs # NotGrouped
    /\ positive_frames = {10, 11, 12, 16, 17, 30}
    /\ Len(runs) = 3
    /\ Len(final_scenes) = 1

\* the seconds Pass 1 sent to the oracle and did not make Candidates
CoarseRejected ==
    {coarse_log.classified[i] : i \in 1..Len(coarse_log.classified)}
       \ {c \div Second : c \in CandidateSet}

\* C13: for a video of 30 s with Candidates exactly at 5 s and 10 s and every
\* Pass 2 sample in [0, 15) positive (second 0, which Pass 1 scored itself,
\* apart), the run yields exactly one scene, starting at 0 or 1 and ending at
\* 14 or 15, and num_scenes = 1.
C13_ScenarioAOneScene ==
    (/\ pc = "done"
     /\ duration = 30 * Second
     /\ CandidateSet = {5 * Second, 10 * Second}
     /\ \A i \in 1..Len(classify_log) :
           (classify_log[i] < 15 /\ classify_log[i] \notin CoarseRejected)
              => ScoresPositive(oracle[classify_log[i]]))
    => /\ Len(final_scenes) = 1
       /\ final_scenes[1][1] \in 0..1
       /\ final_scenes[1][2] \in 14..15
       /\ stats # NoStats
       /\ stats.num_scenes = 1
       /\ result.stats = stats

\* the run of the scenario has ended: seconds 1..4 and 10..14 were sent to
\* the oracle by Pass 2, 5..9 were filled without a call
C13_Witness ==
    /\ pc = "done"
    /\ duration = 30 * Second
    /\ CandidateSet = {5 * Second, 10 * Second}
    /\ \A i \in 1..Len(classify_log) :
          (classify_log[i] < 15 /\ classify_log[i] \notin CoarseRejected)
             => ScoresPositive(oracle[classify_log[i]])
    /\ {classify_log[i] : i \in 1..Len(classify_log)} = (0..4) \cup (10..14)
    /\ positive_frames = 1..14
    /\ final_scenes = << <<1, 14>> >>

\* no timestamp Pass 1 visits has an available frame that scores positive
NoCoarsePositive ==
    ~(\E t \in CoarseTimes :
         FrameAvailable(t) /\ ScoresPositive(oracle[t \div Second]))

\* C14: a run whose coarse scan yields no Candidate returns the empty result
\* directly after Pass 1: no Pass 2 frame fetch, no batch oracle call, no
\* grouping and no renderer call take place.
C14_NoCandidatesEndsAfterPass1 ==
    [][(pc = "start" /\ NoCoarsePositive) =>
          /\ pc' = "done"
          /\ result' = NoneNone
          /\ coarse_candidates' = <<>>
          /\ fetch_log' = <<>>
          /\ classify_log' = <<>>
          /\ runs' = NotGrouped
          /\ final_scenes' = <<>>
          /\ stats' = NoStats
          /\ rendered' = NotRendered]_vars

\* Pass 1 scored at least two frames, none positive, and the run has ended
C14_Witness ==
    /\ pc = "done"
    /\ NoCoarsePositive
    /\ Len(coarse_log.classified) >= 2
    /\ result = NoneNone
    /\ classify_log = <<>>
    /\ runs = NotGrouped

RenderFailed ==
    /\ pc \in {"done", "returned"}
    /\ rendered # NotRendered
    /\ Len(final_scenes) > 0
    /\ result.output_file = "None"

\* C16: if rendering fails after detection produced a non-empty scene list,
\* the caller gets an outcome distinct from "no scenes" and from a detection
\* failure and the detected stats are still reported, at every entry point:
\* process_video, scheduler.process_video_workflow and the API task record.
C16_RenderFailureKeepsStats ==
    RenderFailed =>
       /\ result # NoneNone
       /\ result.output_file # "raised"
       /\ result.stats = stats
       /\ SchedulerReturn(FALSE, stats) # NoneNone
       /\ SchedulerReturn(FALSE, stats).stats = stats
       /\ pc = "returned" =>
             /\ task.error_message # NoScenesMessage
             /\ task.error_message \notin OracleErrors
             /\ task.stats = stats

\* C17: a configuration with BUFFER # STEP_COARSE is detected before any
\* scanning starts and the run is rejected: no coarse or fine oracle call is
\* made and no scene list is produced under it.
C17_MismatchedBufferRejected ==
    config_buffer # STEP_COARSE =>
       /\ coarse_log = NoCoarseLog
       /\ classify_log = <<>>
       /\ runs = NotGrouped
       /\ final_scenes = <<>>
       /\ rendered = NotRendered

Elements(seq) == {seq[i] : i \in 1..Len(seq)}

\* the windows Pass 2 scans: the left side of a Candidate without left
\* neighbour and the right side of one without right neighbour, as <<lo, hi>>
ScannedWindows ==
    {<<Max(0, c - BUFFER), c>> : c \in {x \in CandidateSet : x - STEP_COARSE \notin CandidateSet}}
       \cup {<<c, Min(duration, c + BUFFER)>> :
                 c \in {x \in CandidateSet : x + STEP_COARSE \notin CandidateSet}}

\* the gaps between two Candidates STEP_COARSE apart, which are auto-filled
InAutoFilledGap(t) ==
    \E c \in CandidateSet :
       c + STEP_COARSE \in CandidateSet /\ c <= t * Second /\ t * Second < c + STEP_COARSE

\* C18: in Pass 1 and in every scanned window of Pass 2 a timestamp whose
\* frame fetch returns nothing is skipped without error: it is not sent to
\* the oracle, is not added to the Candidate list, to ScannedFrameSet or (by
\* a scan) to PositiveFrameSet, and the scan continues with the next timestamp.
C18_MissingFrameSkipped ==
    /\ \A t \in missing :
          /\ t \notin Elements(coarse_log.classified)
          /\ t \notin Elements(classify_log)
          /\ t * Second \notin CandidateSet
          /\ t \notin scanned_frames
          /\ t \in positive_frames => InAutoFilledGap(t)
    /\ pc # "start" =>
          \A c \in CoarseTimes :
             /\ c \in Elements(coarse_log.visited)
             /\ FrameAvailable(c) => (c \div Second) \in Elements(coarse_log.classified)
    /\ AfterPass2 =>
          \A w \in ScannedWindows :
             \A t \in SecondsOf(duration) :
                (w[1] <= t * Second /\ t * Second < w[2]) =>
                   /\ t * Second \in Elements(fetch_log)
                   /\ t \notin missing =>
                         (t \in Elements(classify_log) /\ t \in scanned_frames)

\* Pass 2 fetched a timestamp whose frame is unreadable and went on: the next
\* second of the same window was scored and found positive
C18_Witness ==
    /\ AfterPass2
    /\ \E t \in missing :
          /\ t * Second \in Elements(fetch_log)
          /\ t \notin positive_frames
          /\ \E w \in ScannedWindows :
                /\ w[1] <= t * Second
                /\ (t + 1) * Second < w[2]
                /\ (t + 1) \in Elements(classify_log)
                /\ (t + 1) \in positive_frames

\* C19: for video_duration <= 0 the coarse scan fetches no frame and calls
\* the oracle zero times, yields an empty Candidate list, and the run ends
\* with the empty result without raising.
C19_NonPositiveDurationEmptyResult ==
    (duration <= 0 /\ pc # "start") =>
       /\ coarse_log.visited = <<>>
       /\ coarse_log.classified = <<>>
       /\ fetch_log = <<>>
       /\ classify_log = <<>>
       /\ coarse_candidates = <<>>
       /\ pc = "done"
       /\ step.kind # "raise"
       /\ result = NoneNone

\* a video of negative duration has been processed
C19_Witness ==
    /\ duration < 0
    /\ pc = "done"
    /\ result = NoneNone
    /\ coarse_log = NoCoarseLog

RECURSIVE SumEndMinusStart(_)
SumEndMinusStart(scenes) ==
    IF Len(scenes) = 0
    THEN 0
    ELSE (Head(scenes)[2] - Head(scenes)[1]) + SumEndMinusStart(Tail(scenes))

\* C20: for every scene list and total duration _calculate_stats returns
\* num_scenes = number of scenes, total_duration = sum of (end - start), and
\* percentage = 100 * total_duration / total_video_duration when that is > 0
\* and 0 otherwise; it never fails and changes neither argument.
C20_StatsOfAnySceneList ==
    [][pc = "stats" =>
          /\ stats' # NoStats
          /\ stats'.num_scenes = Len(final_scenes)
          /\ stats'.total_duration = SumEndMinusStart(final_scenes)
          /\ stats'.pct_den # 0
          /\ IF duration > 0
             THEN stats'.pct_num * duration
                     = 100 * SumEndMinusStart(final_scenes) * Second * stats'.pct_den
             ELSE stats'.pct_num = 0
          /\ final_scenes' = final_scenes
          /\ duration' = duration]_vars

\* the stats of two scenes were computed for a video of non-positive duration
C20_Witness ==
    /\ pc = "done"
    /\ duration <= 0
    /\ Len(final_scenes) = 2
    /\ stats # NoStats
    /\ stats.num_scenes = 2
    /\ stats.total_duration > 0
    /\ stats.pct_num = 0

JobOrder == <<"scrape", "download", "process", "confirm", "post">>

\* C21: job() runs its steps in the fixed order scrape, download, process,
\* confirm, post, each at most once per job; a step runs only if every earlier
\* step returned a truthy result, each step receives the previous step's
\* output, and post_to_all is called iff request_confirmation returned a
\* truthy decision.
C21_JobStepsInOrder ==
    LET c == job.calls
    IN  /\ Len(c) <= Len(JobOrder)
        /\ \A i \in 1..Len(c) : c[i].step = JobOrder[i]
        /\ \A i \in 1..Len(c) : \A j \in 1..(i - 1) : Truthy(c[j].ret[1])
        /\ Len(c) >= 2 => c[2].args[1] = c[1].ret[2]
        /\ Len(c) >= 3 => c[3].args = c[2].ret
        /\ Len(c) >= 4 => c[4].args = c[3].ret
        /\ Len(c) >= 5 => c[5].args = <<c[3].ret[1], c[1].ret[1], c[3].ret[2]>>
        /\ job.pc = "end" =>
              ((Len(c) = 5) <=> (Len(c) >= 4 /\ c[4].ret = <<"True">>))
        /\ job.pc = "end" =>
              \A i \in 1..4 : (Len(c) = i) => ~Truthy(c[i].ret[1])

\* the second job of the scheduler went through all five steps
C21_Witness ==
    /\ job.pc = "end"
    /\ job.n = 2
    /\ Len(job.calls) = 5
    /\ job.calls[4].ret = <<"True">>
    /\ job.calls[5].step = "post"

\* what process_video computes for the video of the executing run when it
\* runs from start to end on its own
AloneCandidates == SortSeq(CoarseScan.cands, LAMBDA a, b : a < b)
AlonePass2 ==
    FineLoop(AloneCandidates, 1,
             [positive |-> {}, scanned |-> {}, fetched |-> <<>>, classified |-> <<>>])
AloneScenes == GroupScenes(AlonePass2.positive)
AloneStats == CalculateStats(AloneScenes, duration)

\* C22: two detection runs on distinct videos whose steps are interleaved
\* arbitrarily each produce the same candidates, PositiveFrameSet, scenes and
\* stats as when run alone: no run reads or writes another run's
\* PositiveFrameSet, ScannedFrameSet or Candidate list.
C22_InterleavedRunsAsAlone ==
    /\ pc # "start" => coarse_candidates = AloneCandidates
    /\ (pc \in {"group", "stats", "done"} /\ Len(coarse_candidates) > 0) =>
          /\ positive_frames = AlonePass2.positive
          /\ scanned_frames = AlonePass2.scanned
          /\ classify_log = AlonePass2.classified
    /\ pc \in {"stats", "done"} => final_scenes = AloneScenes
    /\ (pc = "done" /\ Len(final_scenes) > 0) => stats = AloneStats

\* both runs are in the middle of Pass 2 at the same time: each has scanned
\* the windows of its first candidate and found positive seconds, neither has
\* reached the Grouper
C22_Witness ==
    /\ pc = "fine"
    /\ parked.pc = "fine"
    /\ idx = 2
    /\ parked.idx = 2
    /\ Len(classify_log) > 0
    /\ Len(parked.classify_log) > 0
    /\ positive_frames # {}
    /\ parked.positive_frames # {}
    /\ positive_frames # parked.positive_frames

\* the whole seconds of the left and of the right window of a Candidate c
LeftWindow(c) == {t \in 0..(c \div Second) : Max(0, c - BUFFER) <= t * Second /\ t * Second < c}
RightWindow(c) ==
    {t \in (c \div Second)..((c + BUFFER) \div Second) :
        c <= t * Second /\ t * Second < Min(duration, c + BUFFER)}

\* how often x occurs in the part of the sequence after position n
CountAfter(seq, n, x) == Cardinality({i \in (n + 1)..Len(seq) : seq[i] = x})

\* what one Pass 2 iteration does to window W, whose neighbour exists or not
WindowHandled(W, has_neighbor) ==
    IF has_neighbor
    THEN \A t \in W :
            /\ t \in positive_frames'
            /\ CountAfter(fetch_log', Len(fetch_log), t * Second) = 0
            /\ CountAfter(classify_log', Len(classify_log), t) = 0
    ELSE \A t \in W :
            IF t \notin scanned_frames /\ t \notin missing
            THEN /\ CountAfter(classify_log', Len(classify_log), t) = 1
                 /\ t \in scanned_frames'
                 /\ t \in positive_frames' <=>
                       (t \in positive_frames \/ ScoresPositive(oracle[t]))
            ELSE /\ CountAfter(classify_log', Len(classify_log), t) = 0
                 /\ t \in positive_frames' <=> t \in positive_frames

\* C23: for a Candidate c lacking at least one neighbour, Pass 2 treats the
\* left window [max(0, c-BUFFER), c) and the right window
\* [c, min(duration, c+BUFFER)) independently: on a side whose neighbour
\* exists every second of the window is added to PositiveFrameSet with no
\* frame fetch and no oracle call; on a side without neighbour each
\* not-yet-scanned second with an available frame is classified exactly once
\* and added iff positive_score > THRESHOLD and positive_score > negative_score.
C23_SidesHandledIndependently ==
    [][(pc = "fine" /\ idx <= Len(coarse_candidates) /\ ~Surrounded) =>
          LET c == coarse_candidates[idx]
              W == LeftWindow(c) \cup RightWindow(c)
          IN  /\ WindowHandled(LeftWindow(c), c - STEP_COARSE \in CandidateSet)
              /\ WindowHandled(RightWindow(c), c + STEP_COARSE \in CandidateSet)
              /\ positive_frames' \ positive_frames \subseteq W
              /\ scanned_frames' \ scanned_frames \subseteq W
              /\ \A i \in (Len(fetch_log) + 1)..Len(fetch_log') :
                    /\ fetch_log'[i] % Second = 0
                    /\ (fetch_log'[i] \div Second) \in W]_vars

\* the last iteration handled a Candidate with a left neighbour and no right
\* neighbour: its left window was filled without a call, its right window was
\* scanned and holds a positive and a non-positive second
C23_Witness ==
    /\ step.kind = "scan"
    /\ step.time - STEP_COARSE \in CandidateSet
    /\ step.time + STEP_COARSE \notin CandidateSet
    /\ LeftWindow(step.time) \subseteq positive_frames
    /\ LeftWindow(step.time) \cap Elements(classify_log) = {}
    /\ \E t, u \in RightWindow(step.time) :
          /\ t \in Elements(classify_log) /\ t \in positive_frames
          /\ u \in Elements(classify_log) /\ u \notin positive_frames

\* the seconds of the timestamps of seq whose frame is available, in order
RECURSIVE AvailableSeconds(_)
AvailableSeconds(seq) ==
    IF Len(seq) = 0
    THEN <<>>
    ELSE (IF FrameAvailable(Head(seq)) THEN <<Head(seq) \div Second>> ELSE <<>>)
            \o AvailableSeconds(Tail(seq))

\* C24: in every fine-scan batch, including batches where some timestamps
\* have no frame, the j-th score pair is applied to the j-th timestamp whose
\* frame was actually fetched: a second t enters ScannedFrameSet or
\* PositiveFrameSet only on the basis of the score of the frame fetched at t.
C24_ScoresAppliedPositionally ==
    /\ classify_log = AvailableSeconds(fetch_log)
    /\ scanned_frames = Elements(classify_log)
    /\ \A t \in scanned_frames :
          /\ t \notin missing
          /\ t \in positive_frames <=> ScoresPositive(oracle[t])

\* a batch held a timestamp without frame followed by two seconds that score
\* differently: the first is scanned and not positive, the second positive
C24_Witness ==
    \E i \in 1..Len(fetch_log) :
       /\ i + 2 <= Len(fetch_log)
       /\ (fetch_log[i] \div Second) \in missing
       /\ fetch_log[i + 1] = fetch_log[i] + STEP_FINE
       /\ fetch_log[i + 2] = fetch_log[i] + 2 * STEP_FINE
       /\ (fetch_log[i + 1] \div Second) \in scanned_frames \ positive_frames
       /\ (fetch_log[i + 2] \div Second) \in scanned_frames \cap positive_frames

\* C25: membership in ScannedFrameSet never puts a second into
\* PositiveFrameSet: with the default configuration a second that Pass 2
\* classified and found non-positive is in ScannedFrameSet and is absent from
\* PositiveFrameSet at the end of the run.
C25_ScannedNegativeStaysOut ==
    (pc = "done" /\ BUFFER = STEP_COARSE) =>
       \A i \in 1..Len(classify_log) :
          ~ScoresPositive(oracle[classify_log[i]]) =>
             /\ classify_log[i] \in scanned_frames
             /\ classify_log[i] \notin positive_frames

\* the run has ended; a second next to an auto-filled gap was classified
\* non-positive and stayed out of PositiveFrameSet, which holds seconds that
\* were never scanned
C25_Witness ==
    /\ pc = "done"
    /\ \E t \in scanned_frames :
          /\ ~ScoresPositive(oracle[t])
          /\ t \notin positive_frames
          /\ (t + 1) \in positive_frames \ scanned_frames

\* (a) the seconds of [a, a + STEP_COARSE) for Candidates a and a + STEP_COARSE
GapSeconds == {t \in SecondsOf(duration) : InAutoFilledGap(t)}

\* (b) the available, positive seconds of a window side without adjacent Candidate
SidePositiveSeconds ==
    {t \in SecondsOf(duration) :
        /\ t \notin missing
        /\ ScoresPositive(oracle[t])
        /\ \E c \in CandidateSet :
              \/ (c - STEP_COARSE \notin CandidateSet
                     /\ c - BUFFER <= t * Second /\ t * Second < c)
              \/ (c + STEP_COARSE \notin CandidateSet
                     /\ c <= t * Second /\ t * Second < c + BUFFER)}

\* C26: with BUFFER == STEP_COARSE, after Pass 2 PositiveFrameSet is exactly
\* the union of (a) and (b); hence the second of every Candidate is in it.
C26_PositiveSetCharacterised ==
    (AfterPass2 /\ BUFFER = STEP_COARSE) =>
       /\ positive_frames = GapSeconds \cup SidePositiveSeconds
       /\ \A c \in CandidateSet : (c \div Second) \in positive_frames

\* after Pass 2 the set holds a second of a gap that the oracle would score
\* non-positive and, outside the gaps, a positive second that is no Candidate
C26_Witness ==
    /\ AfterPass2
    /\ \E t \in GapSeconds : ~ScoresPositive(oracle[t]) /\ t \in positive_frames
    /\ \E t \in SidePositiveSeconds \ GapSeconds :
          t * Second \notin CandidateSet /\ t \in positive_frames
    /\ \E t \in SecondsOf(duration) : t \notin positive_frames

\* every two neighbouring members of P between x and y are at most gap apart
GapConnected(P, x, y, gap) ==
    \A u, v \in P : (Consecutive(P, u, v) /\ x <= u /\ v <= y) => v - u <= gap

\* the maximal gap-connected run of P around its member f
RunAround(P, f, gap) ==
    <<SetMin({x \in P : x <= f /\ GapConnected(P, x, f, gap)}),
      -SetMin({-y : y \in {z \in P : f <= z /\ GapConnected(P, f, z, gap)}})>>

\* C27: the emitted scenes are exactly the maximal gap-connected runs of
\* PositiveFrameSet whose span is >= MIN_SCENE_DURATION: starts and ends are
\* members, neighbouring positive seconds inside a scene differ by at most
\* MIN_GAP_THRESHOLD, consecutive scenes lie more than MIN_GAP_THRESHOLD
\* apart, and a positive second lies in no scene only if its run spans less
\* than MIN_SCENE_DURATION.
C27_ScenesAreMaximalRuns ==
    runs # NotGrouped =>
       /\ SceneSet(final_scenes)
             = {r \in {RunAround(positive_frames, f, 2) : f \in positive_frames} :
                   r[2] - r[1] >= 2}
       /\ \A k \in 1..Len(final_scenes) :
             /\ final_scenes[k][1] \in positive_frames
             /\ final_scenes[k][2] \in positive_frames
             /\ GapConnected(positive_frames, final_scenes[k][1], final_scenes[k][2], 2)
       /\ \A k \in 1..(Len(final_scenes) - 1) :
             final_scenes[k + 1][1] - final_scenes[k][2] > 2
       /\ \A f \in positive_frames :
             (~\E k \in 1..Len(final_scenes) :
                  final_scenes[k][1] <= f /\ f <= final_scenes[k][2])
                => RunAround(positive_frames, f, 2)[2] - RunAround(positive_frames, f, 2)[1] < 2

\* two scenes were emitted, one of them with an inner gap of two seconds,
\* and a positive second between them belongs to a run too short to emit
C27_Witness ==
    /\ runs # NotGrouped
    /\ Len(final_scenes) = 2
    /\ \E x \in positive_frames :
          /\ final_scenes[1][1] <= x
          /\ x + 2 <= final_scenes[1][2]
          /\ (x + 1) \notin positive_frames
    /\ \E f \in positive_frames :
          final_scenes[1][2] < f /\ f < final_scenes[2][1]

----------------------------------------------------------------------------
(* The three copies of the pipeline *)

\* what the finished call of process_video computed, in the shape of an entry
\* of copies
ProcessVideoComputed ==
    [candidates |-> coarse_candidates, positive |-> positive_frames,
     scenes |-> final_scenes,
     classified |-> Elements(coarse_log.classified) \cup Elements(classify_log)]

AgreesWithProcessVideo(c) ==
    /\ c.candidates = ProcessVideoComputed.candidates
    /\ c.positive = ProcessVideoComputed.positive
    /\ c.scenes = ProcessVideoComputed.scenes
    /\ c.classified = ProcessVideoComputed.classified

\* C28: on the same duration, frame source and oracle,
\* scheduler.process_video_workflow and main.main compute the Candidate list,
\* the PositiveFrameSet and the final scene list that process_video computes,
\* and hand the oracle the same set of seconds.
C28_CopiesAgree ==
    \A name \in DOMAIN copies :
        copies[name] # NotRun => AgreesWithProcessVideo(copies[name])

\* all three copies have run on a video with an unreadable frame inside a
\* scanned window and a frame scored exactly at the threshold; Pass 2
\* classified seconds beyond the coarse samples and a scene came out
C28_Witness ==
    /\ copies.scheduler # NotRun
    /\ copies.main # NotRun
    /\ Len(copies.scheduler.candidates) >= 2
    /\ copies.scheduler.scenes # <<>>
    /\ copies.main.scenes = copies.scheduler.scenes
    /\ \E s \in missing : \E w \in ScannedWindows :
          w[1] <= s * Second /\ s * Second < w[2]
    /\ \E s \in copies.scheduler.classified :
          /\ oracle[s] = AtThresholdScore
          /\ s \notin Elements(coarse_log.classified)
    /\ copies.scheduler.classified # copies.scheduler.positive

----------------------------------------------------------------------------
(* The task store *)

Rank(status) == CASE status = "pending" -> 0
                  [] status = "processing" -> 1
                  [] status \in Terminal -> 2

\* what a finished TaskInfo must carry
Settled(task_info) ==
    /\ task_info.status = "completed"
          => task_info.output_file # "None" /\ task_info.stats # NoStats
    /\ task_info.status = "failed" => task_info.error_message # "None"
    /\ task_info.status \in Terminal => task_info.completed_at # "None"

\* a status moves one stage forward or stays, and stays once terminal
StatusAdvances ==
    \A task_id \in DOMAIN tasks \cap DOMAIN tasks' :
        LET old == tasks[task_id].status
            new == tasks'[task_id].status
        IN  /\ Rank(new) >= Rank(old)
            /\ old = "pending" => new \in {"pending", "processing"}
            /\ old \in Terminal => new = old

\* the worker of the task has executed a statement
Started(task_id) == worker[task_id].pc \notin {"none", "line 78"}

\* the worker of the task is past a statement that stores COMPLETED or FAILED
\* (lines 88, 93 and 102): its task has reached a terminal status
ReachedTerminal(task_id) ==
    worker[task_id].pc \in {"line 89", "line 90", "line 94", "line 97", "line 103",
                            "line 104", "returned"}

\* the order of the statuses, and the fields of a finished task whenever no
\* worker is inside its locked block
LifecycleWhenUnlocked ==
    /\ [][StatusAdvances]_vars
    /\ [](tasks_lock = Free => \A task_id \in DOMAIN tasks : Settled(tasks[task_id]))

\* C29: every task of the store goes PENDING, PROCESSING, then COMPLETED or
\* FAILED, never backwards and never on from a terminal status; outside the
\* worker's locked blocks a COMPLETED task has output_file and stats, a FAILED
\* one error_message and a terminal one completed_at; and a task whose worker
\* has started reaches a terminal status, process_video returning or raising.
C29_TaskLifecycle ==
    /\ LifecycleWhenUnlocked
    /\ \A task_id \in TaskIds : Started(task_id) ~> ReachedTerminal(task_id)

\* GET /tasks/{task_id} never answers with a finished task that lacks a field
AnswersSettled ==
    response.code = 200 /\ "body" \in DOMAIN response => Settled(response.body)

\* an entry leaves the store only with a terminal status
DeletedOnlyWhenTerminal ==
    \A task_id \in DOMAIN tasks :
        task_id \notin DOMAIN tasks' => tasks[task_id].status \in Terminal

\* C30: however POST /cleanup/{task_id} and DELETE /cleanup interleave with
\* the workers, an entry is deleted only when its status is COMPLETED or
\* FAILED, no worker ends in a KeyError of tasks[task_id] and no cleanup is
\* answered with the KeyError of a second deletion.
C30_CleanupOnlyFinishedTasks ==
    /\ [][DeletedOnlyWhenTerminal]_vars
    /\ [](\A task_id \in TaskIds : worker[task_id].pc # "raised"
                                     /\ worker[task_id].e # KeyError)
    /\ [](response.code # 500)

====
